---------------------------- MODULE Spec2Model ----------------------------
(***************************************************************************)
(* Bytecode similarity pipeline (pipeline/similarity): the opcode table,   *)
(* the normalizer (parse_bytecode and its helpers) and the batch           *)
(* fingerprinting loop (process_contracts), as state machines.             *)
(*                                                                         *)
(* Python values are represented as follows.                               *)
(*   str            a sequence of one-character strings, <<"0","x","6">>   *)
(*   bytes          a sequence of integers 0..255; Python index i is the   *)
(*                  TLA+ index i+1                                         *)
(*   Optional[int]  None is <<>>, the integer k is <<k>>                   *)
(*   mnemonics and messages are TLA+ strings                               *)
(***************************************************************************)
EXTENDS Integers, Sequences, FiniteSets, TLC

None == <<>>
Some(x) == <<x>>

Min(a, b) == IF a < b THEN a ELSE b
Max(a, b) == IF a > b THEN a ELSE b

(***************************************************************************)
(* opcodes.py                                                              *)
(***************************************************************************)

\* The literal entries of OPCODES, as byte :> <<mnemonic, push_bytes>> (the
\* description, third component in the source, is never read by the code).
OpcodeLiterals ==
   (0 :> <<"STOP", 0>>) @@ (1 :> <<"ADD", 0>>) @@ (2 :> <<"MUL", 0>>) @@ (3
    :> <<"SUB", 0>>) @@ (4 :> <<"DIV", 0>>) @@ (5 :> <<"SDIV", 0>>) @@ (6 :>
    <<"MOD", 0>>) @@ (7 :> <<"SMOD", 0>>) @@ (8 :> <<"ADDMOD", 0>>) @@ (9 :>
    <<"MULMOD", 0>>) @@ (10 :> <<"EXP", 0>>) @@ (11 :> <<"SIGNEXTEND", 0>>)
    @@ (16 :> <<"LT", 0>>) @@ (17 :> <<"GT", 0>>) @@ (18 :> <<"SLT", 0>>) @@
    (19 :> <<"SGT", 0>>) @@ (20 :> <<"EQ", 0>>) @@ (21 :> <<"ISZERO", 0>>)
    @@ (22 :> <<"AND", 0>>) @@ (23 :> <<"OR", 0>>) @@ (24 :> <<"XOR", 0>>)
    @@ (25 :> <<"NOT", 0>>) @@ (26 :> <<"BYTE", 0>>) @@ (27 :> <<"SHL", 0>>)
    @@ (28 :> <<"SHR", 0>>) @@ (29 :> <<"SAR", 0>>) @@ (32 :> <<"SHA3", 0>>)
    @@ (48 :> <<"ADDRESS", 0>>) @@ (49 :> <<"BALANCE", 0>>) @@ (50 :>
    <<"ORIGIN", 0>>) @@ (51 :> <<"CALLER", 0>>) @@ (52 :> <<"CALLVALUE",
    0>>) @@ (53 :> <<"CALLDATALOAD", 0>>) @@ (54 :> <<"CALLDATASIZE", 0>>)
    @@ (55 :> <<"CALLDATACOPY", 0>>) @@ (56 :> <<"CODESIZE", 0>>) @@ (57 :>
    <<"CODECOPY", 0>>) @@ (58 :> <<"GASPRICE", 0>>) @@ (59 :>
    <<"EXTCODESIZE", 0>>) @@ (60 :> <<"EXTCODECOPY", 0>>) @@ (61 :>
    <<"RETURNDATASIZE", 0>>) @@ (62 :> <<"RETURNDATACOPY", 0>>) @@ (63 :>
    <<"EXTCODEHASH", 0>>) @@ (64 :> <<"BLOCKHASH", 0>>) @@ (65 :>
    <<"COINBASE", 0>>) @@ (66 :> <<"TIMESTAMP", 0>>) @@ (67 :> <<"NUMBER",
    0>>) @@ (68 :> <<"DIFFICULTY", 0>>) @@ (69 :> <<"GASLIMIT", 0>>) @@ (70
    :> <<"CHAINID", 0>>) @@ (71 :> <<"SELFBALANCE", 0>>) @@ (80 :> <<"POP",
    0>>) @@ (81 :> <<"MLOAD", 0>>) @@ (82 :> <<"MSTORE", 0>>) @@ (83 :>
    <<"MSTORE8", 0>>) @@ (84 :> <<"SLOAD", 0>>) @@ (85 :> <<"SSTORE", 0>>)
    @@ (86 :> <<"JUMP", 0>>) @@ (87 :> <<"JUMPI", 0>>) @@ (88 :> <<"PC",
    0>>) @@ (89 :> <<"MSIZE", 0>>) @@ (90 :> <<"GAS", 0>>) @@ (91 :>
    <<"JUMPDEST", 0>>) @@ (160 :> <<"LOG0", 0>>) @@ (161 :> <<"LOG1", 0>>)
    @@ (162 :> <<"LOG2", 0>>) @@ (163 :> <<"LOG3", 0>>) @@ (164 :> <<"LOG4",
    0>>) @@ (240 :> <<"CREATE", 0>>) @@ (241 :> <<"CALL", 0>>) @@ (242 :>
    <<"CALLCODE", 0>>) @@ (243 :> <<"RETURN", 0>>) @@ (244 :>
    <<"DELEGATECALL", 0>>) @@ (245 :> <<"CREATE2", 0>>) @@ (250 :>
    <<"STATICCALL", 0>>) @@ (253 :> <<"REVERT", 0>>) @@ (254 :> <<"INVALID",
    0>>) @@ (255 :> <<"SELFDESTRUCT", 0>>)

\* {0x60 + i: (f"PUSH{i+1}", i + 1, ...) for i in range(32)}
\* Mutant: the operand length is counted from 0.
PushEntries_zero == [b \in 96..127 |-> <<"PUSH" \o ToString(b - 96 + 1), b - 96>>]

PushEntries == [b \in 96..127 |-> <<"PUSH" \o ToString(b - 96 + 1), b - 96 + 1>>]

\* {0x80 + i: (f"DUP{i+1}", 0, ...) for i in range(16)}
DupEntries == [b \in 128..143 |-> <<"DUP" \o ToString(b - 128 + 1), 0>>]

\* {0x90 + i: (f"SWAP{i+1}", 0, ...) for i in range(16)}
SwapEntries == [b \in 144..159 |-> <<"SWAP" \o ToString(b - 144 + 1), 0>>]

\* The dict display: literal entries and the three generated families (their
\* key ranges are disjoint, so the order of the merge does not matter).
OPCODES == OpcodeLiterals @@ PushEntries @@ DupEntries @@ SwapEntries

\* Mutant: the delegated call is left out of the call family.
CALL_OPCODES_plain == {"CALL", "CALLCODE", "STATICCALL", "CREATE", "CREATE2"}

CALL_OPCODES == {"CALL", "CALLCODE", "DELEGATECALL", "STATICCALL", "CREATE", "CREATE2"}

PUSH_OPCODES == {"PUSH" \o ToString(i) : i \in 1..32}

HexUpper == <<"0","1","2","3","4","5","6","7","8","9","A","B","C","D","E","F">>

\* f"{n:02X}": upper-case hex of a non-negative integer, zero-padded to two
\* digits (wider numbers keep all their digits).
RECURSIVE HexDigitsOf(_)
HexDigitsOf(n) ==
    IF n < 16 THEN HexUpper[n + 1]
    ELSE HexDigitsOf(n \div 16) \o HexUpper[(n % 16) + 1]

Format02X(n) == IF n < 16 THEN "0" \o HexDigitsOf(n) ELSE HexDigitsOf(n)

\* get_opcode(byte) -> (mnemonic, bytes_to_skip)
\* Mutant: an unknown byte is given one operand byte.
get_opcode_unknown_operand(byte) ==
    IF byte \in DOMAIN OPCODES
    THEN <<OPCODES[byte][1], OPCODES[byte][2]>>
    ELSE <<"UNKNOWN_" \o Format02X(byte), 1>>

get_opcode(byte) ==
    IF byte \in DOMAIN OPCODES
    THEN <<OPCODES[byte][1], OPCODES[byte][2]>>
    ELSE <<"UNKNOWN_" \o Format02X(byte), 0>>

is_push_opcode(mnemonic) == mnemonic \in PUSH_OPCODES

(***************************************************************************)
(* normalize.py: helpers                                                   *)
(***************************************************************************)

\* s[k:] for k >= 0
DropFirst(s, k) == IF k >= Len(s) THEN <<>> ELSE SubSeq(s, k + 1, Len(s))

\* s[-k:] for k > 0
LastN(s, k) == IF k >= Len(s) THEN s ELSE SubSeq(s, Len(s) - k + 1, Len(s))

\* s.startswith(p)
StartsWith(s, p) == Len(s) >= Len(p) /\ SubSeq(s, 1, Len(p)) = p

strip_0x_prefix(bytecode) ==
    IF StartsWith(bytecode, <<"0", "x">>) \/ StartsWith(bytecode, <<"0", "X">>)
    THEN DropFirst(bytecode, 2)
    ELSE bytecode

HexChars == {"0","1","2","3","4","5","6","7","8","9",
             "a","b","c","d","e","f","A","B","C","D","E","F"}

HexValue ==
    ("0" :> 0) @@ ("1" :> 1) @@ ("2" :> 2) @@ ("3" :> 3) @@ ("4" :> 4) @@
    ("5" :> 5) @@ ("6" :> 6) @@ ("7" :> 7) @@ ("8" :> 8) @@ ("9" :> 9) @@
    ("a" :> 10) @@ ("b" :> 11) @@ ("c" :> 12) @@ ("d" :> 13) @@ ("e" :> 14) @@
    ("f" :> 15) @@ ("A" :> 10) @@ ("B" :> 11) @@ ("C" :> 12) @@ ("D" :> 13) @@
    ("E" :> 14) @@ ("F" :> 15)

\* The ASCII whitespace bytes.fromhex skips between byte pairs; the model's
\* strings only ever hold the space character.
SpaceChars == {" "}

\* bytes.fromhex(s).  The scanner skips whitespace, then takes two adjacent
\* hex digits per byte, so the pairs start at the 1st, 3rd, 5th, ...
\* non-space character up to the first pair that is not two hex digits.
\* ValueError (ok = FALSE) names the 0-based position of the offending
\* character, which is len(s) when the string ends inside a pair.
FromHex(s) ==
    LET nonspace == SelectSeq([i \in 1..Len(s) |-> i],
                              LAMBDA i : s[i] \notin SpaceChars)
        start(k) == nonspace[2 * k - 1]
        PairOk(i) == /\ s[i] \in HexChars
                     /\ i + 1 <= Len(s)
                     /\ s[i + 1] \in HexChars
        bad == {k \in 1..((Len(nonspace) + 1) \div 2) : ~PairOk(start(k))}
        first == start(CHOOSE k \in bad : \A j \in bad : k <= j)
    IN  IF bad = {}
        THEN [ok |-> TRUE,
              bytes |-> [k \in 1..(Len(nonspace) \div 2) |->
                            16 * HexValue[s[start(k)]] + HexValue[s[start(k) + 1]]],
              pos |-> 0]
        ELSE [ok |-> FALSE, bytes |-> <<>>,
              pos |-> IF s[first] \notin HexChars THEN first - 1 ELSE first]

\* int.from_bytes(b, 'big')
RECURSIVE IntFromBytesBig(_)
IntFromBytesBig(b) ==
    IF b = <<>> THEN 0
    ELSE 256 * IntFromBytesBig(SubSeq(b, 1, Len(b) - 1)) + b[Len(b)]

\* Whether Python accepts b[i]: -len(b) <= i < len(b); otherwise IndexError.
IndexOk(b, i) == -Len(b) <= i /\ i < Len(b)

\* b[i] with Python's indexing: a negative index counts from the end.
PyIndex(b, i) == IF i >= 0 THEN b[i + 1] ELSE b[Len(b) + i + 1]

\* The 0-based indices at which sub occurs in b.
Occurrences(b, sub) ==
    {i \in 0..(Len(b) - Len(sub)) : SubSeq(b, i + 1, i + Len(sub)) = sub}

\* sub in b
Contains(b, sub) == Occurrences(b, sub) # {}

\* b.rfind(sub): the highest index of an occurrence, -1 when there is none.
RFind(b, sub) ==
    IF Occurrences(b, sub) = {} THEN -1
    ELSE CHOOSE i \in Occurrences(b, sub) : \A j \in Occurrences(b, sub) : j <= i

MinMetadataSize == 43
MinMetadataLength == 32
MaxMetadataLength == 100
BzzrWindow == 64
CborMarkers == {161, 162, 163}
bzzr_marker == <<98, 122, 122, 114>>


\* Mutant: the upper limit is exclusive.
MetadataLengthPlausible_exclusive(metadata_length, size) ==
    /\ MinMetadataLength <= metadata_length
    /\ metadata_length < MaxMetadataLength
    /\ metadata_length < size

\* 32 <= metadata_length <= 100 and metadata_length < len(bytecode_bytes)
MetadataLengthPlausible(metadata_length, size) ==
    /\ MinMetadataLength <= metadata_length
    /\ metadata_length <= MaxMetadataLength
    /\ metadata_length < size

\* Mutant: a block starting at index 0 is accepted.
PotentialStartOk_zero(potential_start) == potential_start >= 0

\* if potential_start > 0: guards the read of bytecode_bytes[potential_start]
PotentialStartOk(potential_start) == potential_start > 0

\* The "bzzr" fallback: the marker occurs in the last 64 bytes and its last
\* occurrence lies at an index above 2.
BzzrOffset(bytecode_bytes) ==
    LET idx == RFind(bytecode_bytes, bzzr_marker)
    IN  IF Contains(LastN(bytecode_bytes, BzzrWindow), bzzr_marker) /\ idx > 2
        THEN Some(idx - 2)
        ELSE None

\* detect_metadata_offset(bytecode_bytes): offset is the value returned,
\* indexed the set of index expressions i evaluated as bytecode_bytes[i], and
\* index_error whether one of them raised IndexError (caught by the except
\* clause, after which the fallback runs).
detect_metadata_offset(bytecode_bytes) ==
    LET size == Len(bytecode_bytes)
        metadata_length == IntFromBytesBig(LastN(bytecode_bytes, 2))
        potential_start == size - metadata_length - 2
        reads_marker == /\ MetadataLengthPlausible(metadata_length, size)
                        /\ PotentialStartOk(potential_start)
        raised == reads_marker /\ ~IndexOk(bytecode_bytes, potential_start)
        by_length == /\ reads_marker
                     /\ ~raised
                     /\ PyIndex(bytecode_bytes, potential_start) \in CborMarkers
    IN  IF size < MinMetadataSize
        THEN [offset |-> None, indexed |-> {}, index_error |-> FALSE]
        ELSE [offset |-> IF by_length THEN Some(potential_start)
                         ELSE BzzrOffset(bytecode_bytes),
              indexed |-> IF reads_marker THEN {potential_start} ELSE {},
              index_error |-> raised]

\* Mutant: the width-specific mnemonic is kept.
normalize_push_opcode_keep(mnemonic) == mnemonic

normalize_push_opcode(mnemonic) ==
    IF is_push_opcode(mnemonic) THEN "PUSH" ELSE mnemonic

\* The NormalizedBytecode dataclass.
NormalizedBytecode(opcodes, raw_opcodes, opcode_count, original_size, has_metadata, metadata_offset, parse_errors) ==
    [opcodes |-> opcodes, raw_opcodes |-> raw_opcodes,
     opcode_count |-> opcode_count, original_size |-> original_size,
     has_metadata |-> has_metadata, metadata_offset |-> metadata_offset,
     parse_errors |-> parse_errors]

\* Mutant: the loop runs once more, at position = code_end.
LoopCondition_inclusive(position, code_end) == position <= code_end

\* while position < code_end
LoopCondition(position, code_end) == position < code_end

\* Mutant: an operand ending exactly at code_end is reported too.
OperandOverrun_inclusive(position, code_end, operand_bytes) ==
    position >= code_end /\ operand_bytes > 0

\* if position > code_end and operand_bytes > 0 (position already advanced)
OperandOverrun(position, code_end, operand_bytes) ==
    position > code_end /\ operand_bytes > 0

\* One iteration of the decode loop of parse_bytecode, on the loop's locals
\* ls = [position, raw_opcodes, normalized_opcodes, errors, broke, raised];
\* decoded records the index of every byte read as bytecode_bytes[position].
\* An index Python rejects raises IndexError out of parse_bytecode (raised).
DecodeIteration(bytecode_bytes, code_end, ls) ==
    LET byte == PyIndex(bytecode_bytes, ls.position)
        op == get_opcode(byte)
        mnemonic == op[1]
        operand_bytes == op[2]
        position == ls.position + 1 + operand_bytes
        overrun == OperandOverrun(position, code_end, operand_bytes)
    IN  IF ~IndexOk(bytecode_bytes, ls.position)
        THEN [ls EXCEPT !.raised = TRUE]
        ELSE
        [position |-> position,
         raw_opcodes |-> Append(ls.raw_opcodes, mnemonic),
         normalized_opcodes |->
             Append(ls.normalized_opcodes, normalize_push_opcode(mnemonic)),
         errors |->
             IF overrun
             THEN Append(ls.errors,
                         "PUSH operand extends past code end at position "
                             \o ToString(position - operand_bytes - 1))
             ELSE ls.errors,
         decoded |-> Append(ls.decoded, ls.position),
         broke |-> overrun,
         raised |-> FALSE]

\* The locals when the loop is entered: position = 0, empty lists.
LoopEntry ==
    [position |-> 0, raw_opcodes |-> <<>>, normalized_opcodes |-> <<>>,
     errors |-> <<>>, decoded |-> <<>>, broke |-> FALSE, raised |-> FALSE]

\* The whole loop, run to its exit (the condition fails or break is taken).
RECURSIVE DecodeLoop(_, _, _)
DecodeLoop(bytecode_bytes, code_end, ls) ==
    IF ls.broke \/ ls.raised \/ ~LoopCondition(ls.position, code_end) THEN ls
    ELSE DecodeLoop(bytecode_bytes, code_end,
                    DecodeIteration(bytecode_bytes, code_end, ls))

\* code_end = metadata_offset if has_metadata else len(bytecode_bytes)
CodeEnd(bytecode_bytes, metadata_offset) ==
    IF metadata_offset # None THEN metadata_offset[1] ELSE Len(bytecode_bytes)

\* metadata_offset = detect_metadata_offset(b) if strip_metadata else None
MetadataOffsetOf(bytecode_bytes, strip) ==
    IF strip THEN detect_metadata_offset(bytecode_bytes).offset ELSE None

\* Mutant: the empty result carries no warning.
EmptyResult_silent ==
    NormalizedBytecode(<<>>, <<>>, 0, 0, FALSE, None, <<>>)

EmptyResult ==
    NormalizedBytecode(<<>>, <<>>, 0, 0, FALSE, None, <<"Empty bytecode">>)

InvalidHexResult(hex_str) ==
    NormalizedBytecode(<<>>, <<>>, 0, Len(hex_str) \div 2, FALSE, None,
        <<"Invalid hex: non-hexadecimal number found in fromhex() arg at position "
              \o ToString(FromHex(hex_str).pos)>>)

\* The return statement after the loop.
DecodedResult(bytecode_bytes, metadata_offset, ls) ==
    NormalizedBytecode(ls.normalized_opcodes, ls.raw_opcodes,
                       Len(ls.normalized_opcodes), Len(bytecode_bytes),
                       metadata_offset # None, metadata_offset, ls.errors)

\* What a call yields when an exception leaves it instead of a value.
Raised(exception) == [exception |-> exception]
IsRaised(value) == DOMAIN value = {"exception"}

\* parse_bytecode(bytecode, strip_metadata) as a function of its arguments.
parse_bytecode(bytecode, strip) ==
    LET hex == strip_0x_prefix(bytecode)
        parsed == FromHex(hex)
        offset == MetadataOffsetOf(parsed.bytes, strip)
        ls == DecodeLoop(parsed.bytes, CodeEnd(parsed.bytes, offset), LoopEntry)
    IN  IF hex = <<>> THEN EmptyResult
        ELSE IF ~parsed.ok THEN InvalidHexResult(hex)
        ELSE IF ls.raised THEN Raised("IndexError")
        ELSE DecodedResult(parsed.bytes, offset, ls)

\* get_opcode_sequence(bytecode): parse_bytecode(bytecode).opcodes, or the
\* exception parse_bytecode raised.
get_opcode_sequence(bytecode) ==
    LET parsed == parse_bytecode(bytecode, TRUE)
    IN  IF IsRaised(parsed) THEN parsed ELSE parsed.opcodes

(***************************************************************************)
(* The inputs the model draws from                                         *)
(***************************************************************************)

\* Longest byte string enumerated exhaustively over ByteAlphabet.
MaxCodeLen == 3
\* Longest character string enumerated exhaustively over CharAlphabet.
MaxStrLen == 4

\* STOP, an unassigned byte (0x0C), MSTORE, PUSH1, PUSH2, LOG2 (also a CBOR
\* marker value).
ByteAlphabet == {0, 12, 82, 96, 97, 162}

\* Digits, both prefix letters, a hex letter, a non-hex letter, whitespace.
CharAlphabet == {"0", "x", "X", "6", "g", " "}

SeqsUpTo(S, n) == UNION {[1..k -> S] : k \in 0..n}

Repeat(x, n) == [i \in 1..n |-> x]

HexLower == <<"0","1","2","3","4","5","6","7","8","9","a","b","c","d","e","f">>

\* The hex text of a byte string, as bytes.hex() writes it.
ToHex(b) ==
    [i \in 1..(2 * Len(b)) |->
        IF i % 2 = 1 THEN HexLower[(b[(i + 1) \div 2] \div 16) + 1]
                     ELSE HexLower[(b[i \div 2] % 16) + 1]]

ShortCodes == SeqsUpTo(ByteAlphabet, MaxCodeLen)

\* Lengths of the code that precedes a trailing block, and block lengths
\* around the limits the detector tests (43 bytes in all, 32..100 in the
\* length field, a block starting at index 0).
PreLens == {0, 1, 2, 9, 10}
BlockLens == {31, 32, 39, 40, 41, 100, 101}
MarkerBytes == {160, 161, 162, 163, 164}
\* STOP or PUSH1 before the block; STOP or PUSH32 inside it.
PreBytes == {0, 96}
FillBytes == {0, 127}

\* A block of block_len bytes: the marker, the filler, or (swarm) the marker
\* followed by the 0x65 "bzzr" 0x30 0x58 0x20 header the Solidity compiler
\* wrote; then the two-byte big-endian length field.
Block(marker, fill, block_len, swarm) ==
    (IF swarm
     THEN <<marker, 101>> \o bzzr_marker \o <<48, 88, 32>> \o Repeat(0, block_len - 9)
     ELSE <<marker>> \o Repeat(fill, block_len - 1))
    \o <<block_len \div 256, block_len % 256>>

BlockFamily(pres, lens, markers, fills, blocks) ==
    {Repeat(pre, n) \o Block(m, f, k, FALSE) :
        pre \in pres, n \in lens, m \in markers, f \in fills, k \in blocks}

BlockCodes ==
    BlockFamily(PreBytes, PreLens, MarkerBytes, FillBytes, BlockLens)
    \cup
    {Repeat(pre, n) \o Block(m, 0, k, TRUE) :
        pre \in PreBytes, n \in PreLens, m \in MarkerBytes, k \in {39, 40, 41}}

\* The literal "bzzr" at index n, followed by filler that puts it inside or
\* outside the last 64 bytes; a second, earlier occurrence; "bzzr" ahead of
\* a block with a length field.
BzzrLens == {0, 1, 2, 3, 4}
BzzrTails == {38, 39, 60, 61}

BzzrCodes ==
    {Repeat(pre, n) \o bzzr_marker \o Repeat(f, j) :
        pre \in PreBytes, n \in BzzrLens, f \in FillBytes, j \in BzzrTails}
    \cup
    {bzzr_marker \o Repeat(0, 70) \o Repeat(pre, n) \o bzzr_marker \o Repeat(0, j) :
        pre \in PreBytes, n \in {0, 1}, j \in {10, 61}}
    \cup
    {Repeat(0, n) \o bzzr_marker \o Block(m, 0, 40, FALSE) :
        n \in {1, 3}, m \in {160, 161}}

\* The five bytes 0x6060604052, and the sample of normalize.py's __main__ block.
SampleInit == <<96, 96, 96, 64, 82>>
SampleMain == FromHex(<<
    "6","0","8","0","6","0","4","0","5","2","3","4","8","0","1","5","6","0","0","f",
    "5","7","6","0","0","0","8","0","f","d","5","b","5","0","6","0","3","5","8","0",
    "6","0","1","d","6","0","0","0","3","9","6","0","0","0","f","3","f","e","6","0",
    "8","0","6","0","4","0","5","2","6","0","0","0","8","0","f","d","f","e","a","1",
    "6","5","6","2","7","a","7","a","7","2","3","0","5","8","2","0">>).bytes

Codes == ShortCodes \cup BlockCodes \cup BzzrCodes \cup {SampleInit, SampleMain}

\* The strings handed to parse_bytecode: every short character string, and
\* the hex text of every code, bare and with the 0x prefix.
InputsOf(codes) ==
    SeqsUpTo(CharAlphabet, MaxStrLen)
    \cup {ToHex(c) : c \in codes}
    \cup {<<"0", "x">> \o ToHex(c) : c \in codes}

Inputs == InputsOf(Codes)

\* The inputs of the runs checked for termination: the short ones, the
\* samples, and long codes on either side of each limit of the detector.
TerminationInputs ==
    InputsOf(ShortCodes \cup {SampleInit, SampleMain}
             \cup BlockFamily({96}, {1, 9}, {161, 164}, {127}, {32, 40, 100}))

(***************************************************************************)
(* State                                                                   *)
(***************************************************************************)

VARIABLES
    bytecode,            \* parse_bytecode's argument
    strip_metadata,      \* parse_bytecode's argument
    pc,                  \* "start", "loop", "return", "done", "raised"
    bytecode_bytes,      \* locals of parse_bytecode
    metadata_offset,
    code_end,
    position,
    raw_opcodes,
    normalized_opcodes,
    errors,
    decoded,             \* history: indices read as bytecode_bytes[position]
    indexed,             \* history: indices read by detect_metadata_offset
    result               \* the NormalizedBytecode returned, once pc = "done"

parseVars == <<bytecode, strip_metadata, pc, bytecode_bytes, metadata_offset,
               code_end, position, raw_opcodes, normalized_opcodes, errors,
               decoded, indexed, result>>

VARIABLES
    pair,                \* two bytecode strings handed to parse_bytecode
    pair_result          \* what parse_bytecode returned for each, once parsed

pairVars == <<pair, pair_result>>

VARIABLES
    contracts,           \* process_contracts' argument: a list of dicts
    verbose,             \* process_contracts' argument
    batch_pc,            \* "idle", "start", "loop", "returned", "raised"
    cursor,              \* index of the record the for loop takes next
    fingerprints,        \* locals of process_contracts
    record_errors,       \* the local list named errors
    stdout               \* the lines printed so far by process_contracts and by
                         \* run_pipeline's corpus check (lines 205-208)

batchVars == <<contracts, verbose, batch_pc, cursor, fingerprints,
               record_errors, stdout>>

VARIABLES
    fp_address,          \* generate_fingerprint's argument address
    stream,              \* generate_fingerprint's argument opcodes
    fp_pc,               \* "idle", "start", "scan", "returned"
    scan_index,          \* detect_loops: index of the opcode the for loop takes next
    loop_count,          \* locals of detect_loops
    in_potential_loop,
    distance_from_jumpdest,
    fingerprint,         \* the ContractFingerprint returned, once fp_pc = "returned"
    row                  \* export_fingerprints_csv's row for it, once fp_pc = "written"

fpVars == <<fp_address, stream, fp_pc, scan_index, loop_count,
            in_potential_loop, distance_from_jumpdest, fingerprint, row>>

VARIABLES
    score_fingerprints,  \* scoreAll's argument: the identities of the fingerprints
    pair_scores,         \* overallScore of each unordered pair, by pair of indices
    threshold,           \* scoreAll's argument
    max_matches,         \* scoreAll's argument maxMatchesPerItem
    score_pc,            \* "idle", "start", "scan", "returned"
    pair_i,              \* the pair the scan evaluates next
    pair_j,
    retained,            \* per subject, the results its top-K structure holds
    evaluated,           \* history: the pairs evaluated so far, in order
    discarded,           \* history: the results dropped by a top-K structure
    similarities         \* the sequence returned, once score_pc = "returned"

scoreVars == <<score_fingerprints, pair_scores, threshold, max_matches, score_pc,
               pair_i, pair_j, retained, evaluated, discarded, similarities>>

VARIABLES
    run_pc,              \* "idle", "start", "fingerprinting", "scoring", "returned", "raised"
    outputs,             \* what run_pipeline returned, once run_pc = "returned"
    scoring_calls,       \* history: calls of compute_all_similarities
    exported,            \* history: the files the exporter wrote
    exit_status          \* main: the status passed to sys.exit, None without one

runVars == <<run_pc, outputs, scoring_calls, exported, exit_status>>

VARIABLES
    input_data,          \* the JSON document at input_path
    merge_with,          \* convert_file's argument: None or a path
    merge_file,          \* the JSON document at merge_with, Missing if there is no file
    include_short_bytecode,
    output_file,         \* the JSON document at output_path, Missing until written
    conv_pc,             \* "idle", "start", "loop", "written", "raised"
    conv_contracts,      \* locals of convert_file
    conv_i,
    existing_list,
    existing_addrs,
    converted,
    invalid_count,
    added_count,
    stats,               \* what convert_file returned
    skipped_count,       \* history: times the "already in existing" branch was taken
    run_number,          \* history: 1 for the first run, 2 for the run merging with its output
    first_output         \* history: what the first run wrote

convVars == <<input_data, merge_with, merge_file, include_short_bytecode,
              output_file, conv_pc, conv_contracts, conv_i, existing_list,
              existing_addrs, converted, invalid_count, added_count, stats,
              skipped_count, run_number, first_output>>

VARIABLES
    table_byte,          \* get_opcode's argument
    table_entry,         \* what get_opcode returned, Unset before the call
    table_push,          \* what is_push_opcode returned for the mnemonic
    table_pc             \* "idle", "start", "looked_up", "classified"

tableVars == <<table_byte, table_entry, table_push, table_pc>>

VARIABLES
    threshold_weak,      \* THRESHOLD_WEAK, in eighths
    det_contract,        \* analyze_contract's argument
    reference_fingerprints, \* the keys of self.reference_fingerprints, in dict order
    det_scores,          \* compute_similarity(...).similarity_score per reference, in eighths
    det_pc,              \* "idle", "start", "compare", "compared", "returned"
    det_i,               \* position of the for loop in reference_fingerprints
    best_match,          \* locals of analyze_contract
    best_score,
    det_similarities,
    det_result           \* what analyze_contract returned

detectVars == <<threshold_weak, det_contract, reference_fingerprints, det_scores,
                det_pc, det_i, best_match, best_score, det_similarities, det_result>>

toolVars == <<convVars, tableVars, detectVars>>

laterVars == <<fpVars, scoreVars, runVars, toolVars>>

vars == <<parseVars, pairVars, batchVars, laterVars>>

hex_str == strip_0x_prefix(bytecode)

\* The locals before the loop is entered, and result before the return.
Unset == <<>>

LocalsUnset ==
    /\ bytecode_bytes = Unset
    /\ metadata_offset = None
    /\ code_end = 0
    /\ position = 0
    /\ raw_opcodes = <<>>
    /\ normalized_opcodes = <<>>
    /\ errors = <<>>
    /\ decoded = <<>>
    /\ indexed = {}
    /\ result = Unset

\* The variables of a call that is not being made.
ParseIdle ==
    /\ bytecode = <<>>
    /\ strip_metadata = TRUE
    /\ pc = "idle"
    /\ LocalsUnset

PairIdle == pair = <<>> /\ pair_result = <<>>

BatchIdle ==
    /\ contracts = <<>>
    /\ verbose = FALSE
    /\ batch_pc = "idle"
    /\ cursor = 0
    /\ fingerprints = <<>>
    /\ record_errors = <<>>
    /\ stdout = <<>>

FingerprintIdle ==
    /\ fp_address = ""
    /\ stream = <<>>
    /\ fp_pc = "idle"
    /\ scan_index = 0
    /\ loop_count = 0
    /\ in_potential_loop = FALSE
    /\ distance_from_jumpdest = 0
    /\ fingerprint = Unset
    /\ row = Unset

ScoreIdle ==
    /\ score_fingerprints = <<>>
    /\ pair_scores = <<>>
    /\ threshold = 0
    /\ max_matches = 0
    /\ score_pc = "idle"
    /\ pair_i = 0
    /\ pair_j = 0
    /\ retained = <<>>
    /\ evaluated = <<>>
    /\ discarded = {}
    /\ similarities = Unset

RunIdle ==
    /\ run_pc = "idle"
    /\ outputs = Unset
    /\ scoring_calls = 0
    /\ exported = {}
    /\ exit_status = None

\* No file at the path.
Missing == [kind |-> "missing", items |-> <<>>]

ConvertIdle ==
    /\ input_data = Missing
    /\ merge_with = None
    /\ merge_file = Missing
    /\ include_short_bytecode = FALSE
    /\ output_file = Missing
    /\ conv_pc = "idle"
    /\ conv_contracts = <<>>
    /\ conv_i = 0
    /\ existing_list = <<>>
    /\ existing_addrs = {}
    /\ converted = <<>>
    /\ invalid_count = 0
    /\ added_count = 0
    /\ stats = Unset
    /\ skipped_count = 0
    /\ run_number = 0
    /\ first_output = Missing

TableIdle ==
    /\ table_byte = 0
    /\ table_entry = Unset
    /\ table_push = FALSE
    /\ table_pc = "idle"

DetectIdle ==
    /\ threshold_weak = 0
    /\ det_contract = Unset
    /\ reference_fingerprints = <<>>
    /\ det_scores = <<>>
    /\ det_pc = "idle"
    /\ det_i = 0
    /\ best_match = None
    /\ best_score = 0
    /\ det_similarities = {}
    /\ det_result = Unset

ToolIdle == ConvertIdle /\ TableIdle /\ DetectIdle

LaterIdle == FingerprintIdle /\ ScoreIdle /\ RunIdle /\ ToolIdle

Init ==
    /\ bytecode \in Inputs
    /\ strip_metadata \in BOOLEAN
    /\ pc = "start"
    /\ LocalsUnset
    /\ PairIdle
    /\ BatchIdle
    /\ LaterIdle

(***************************************************************************)
(* parse_bytecode, one step at a time                                      *)
(***************************************************************************)

loopLocals == <<position, raw_opcodes, normalized_opcodes, errors, decoded>>

\* if not hex_str: return NormalizedBytecode(... parse_errors=["Empty bytecode"])
ReturnEmpty ==
    /\ pc = "start"
    /\ hex_str = <<>>
    /\ result' = EmptyResult
    /\ pc' = "done"
    /\ UNCHANGED <<bytecode, strip_metadata, bytecode_bytes, metadata_offset,
                   code_end, loopLocals, indexed>>
    /\ UNCHANGED <<pairVars, batchVars, laterVars>>

\* except ValueError: return NormalizedBytecode(... parse_errors=["Invalid hex: ..."])
ReturnInvalidHex ==
    /\ pc = "start"
    /\ hex_str # <<>>
    /\ ~FromHex(hex_str).ok
    /\ result' = InvalidHexResult(hex_str)
    /\ pc' = "done"
    /\ UNCHANGED <<bytecode, strip_metadata, bytecode_bytes, metadata_offset,
                   code_end, loopLocals, indexed>>
    /\ UNCHANGED <<pairVars, batchVars, laterVars>>

\* bytes.fromhex succeeded: detect the metadata, set code_end, enter the loop.
EnterLoop ==
    /\ pc = "start"
    /\ hex_str # <<>>
    /\ FromHex(hex_str).ok
    /\ bytecode_bytes' = FromHex(hex_str).bytes
    /\ metadata_offset' = MetadataOffsetOf(bytecode_bytes', strip_metadata)
    /\ indexed' = IF strip_metadata
                  THEN detect_metadata_offset(bytecode_bytes').indexed
                  ELSE {}
    /\ code_end' = CodeEnd(bytecode_bytes', metadata_offset')
    /\ position' = LoopEntry.position
    /\ raw_opcodes' = LoopEntry.raw_opcodes
    /\ normalized_opcodes' = LoopEntry.normalized_opcodes
    /\ errors' = LoopEntry.errors
    /\ decoded' = LoopEntry.decoded
    /\ pc' = "loop"
    /\ UNCHANGED <<bytecode, strip_metadata, result>>
    /\ UNCHANGED <<pairVars, batchVars, laterVars>>

\* The loop's locals as DecodeIteration takes them.
Locals ==
    [position |-> position, raw_opcodes |-> raw_opcodes,
     normalized_opcodes |-> normalized_opcodes, errors |-> errors,
     decoded |-> decoded, broke |-> FALSE, raised |-> FALSE]

\* One iteration of the while loop; break leads to the return statement, an
\* IndexError out of the function.
DecodeStep ==
    /\ pc = "loop"
    /\ LoopCondition(position, code_end)
    /\ LET ls == DecodeIteration(bytecode_bytes, code_end, Locals)
       IN  /\ position' = ls.position
           /\ raw_opcodes' = ls.raw_opcodes
           /\ normalized_opcodes' = ls.normalized_opcodes
           /\ errors' = ls.errors
           /\ decoded' = ls.decoded
           /\ pc' = IF ls.raised THEN "raised"
                    ELSE IF ls.broke THEN "return" ELSE "loop"
    /\ UNCHANGED <<bytecode, strip_metadata, bytecode_bytes, metadata_offset,
                   code_end, indexed, result>>
    /\ UNCHANGED <<pairVars, batchVars, laterVars>>

\* The loop condition fails: fall through to the return statement.
ExitLoop ==
    /\ pc = "loop"
    /\ ~LoopCondition(position, code_end)
    /\ pc' = "return"
    /\ UNCHANGED <<bytecode, strip_metadata, bytecode_bytes, metadata_offset,
                   code_end, loopLocals, indexed, result>>
    /\ UNCHANGED <<pairVars, batchVars, laterVars>>

\* return NormalizedBytecode(opcodes=normalized_opcodes, ...)
Return ==
    /\ pc = "return"
    /\ result' = DecodedResult(bytecode_bytes, metadata_offset, Locals)
    /\ pc' = "done"
    /\ UNCHANGED <<bytecode, strip_metadata, bytecode_bytes, metadata_offset,
                   code_end, loopLocals, indexed>>
    /\ UNCHANGED <<pairVars, batchVars, laterVars>>

Next ==
    \/ ReturnEmpty
    \/ ReturnInvalidHex
    \/ EnterLoop
    \/ DecodeStep
    \/ ExitLoop
    \/ Return

Spec == Init /\ [][Next]_vars

\* A single call runs on: the next statement is always executed.
FairInit ==
    /\ bytecode \in TerminationInputs
    /\ strip_metadata \in BOOLEAN
    /\ pc = "start"
    /\ LocalsUnset
    /\ PairIdle
    /\ BatchIdle
    /\ LaterIdle

FairSpec == FairInit /\ [][Next]_vars /\ WF_vars(Next)

(***************************************************************************)
(* Properties of parse_bytecode                                            *)
(***************************************************************************)

\* The input was decoded by the loop: non-empty after the prefix, valid hex.
ValidHexInput == hex_str # <<>> /\ FromHex(hex_str).ok

\* The byte the i-th decoded instruction was read from.
DecodedByte(i) == bytecode_bytes[decoded[i] + 1]

\* Every overrun warning the loop can write.
OverrunMessages ==
    {"PUSH operand extends past code end at position " \o ToString(p) :
        p \in 0..Len(bytecode_bytes)}

\* C2 (decoding is total and terminates): every loop iteration moves the
\* cursor forward by at least one byte and decodes exactly one instruction, at
\* most code_end instructions are ever decoded, no exception leaves the
\* function, and every call reaches its return.
C2_TotalAndTerminates ==
    /\ [][(pc = "loop" /\ position < code_end)
            => /\ position' >= position + 1
               /\ Len(raw_opcodes') = Len(raw_opcodes) + 1]_vars
    /\ [](pc # "raised" /\ Len(raw_opcodes) <= code_end)
    /\ <>(pc = "done")

C2_Witness ==
    /\ pc = "done"
    /\ ValidHexInput
    /\ result.opcode_count >= 3
    /\ \E i \in 1..Len(decoded) - 1 : decoded[i + 1] > decoded[i] + 1

\* C3 (truncated operand): for valid non-empty hex, the result carries a
\* warning exactly when the last decoded instruction is a push whose operand
\* runs past the end of the executable region, and then exactly one warning.
C3_LastIsOverrunningPush ==
    /\ decoded # <<>>
    /\ DecodedByte(Len(decoded)) \in 96..127
    /\ decoded[Len(decoded)] + 1 + (DecodedByte(Len(decoded)) - 95) > code_end

C3_TruncatedOperand ==
    (pc = "done" /\ ValidHexInput) =>
        /\ (result.parse_errors # <<>>) <=> C3_LastIsOverrunningPush
        /\ result.parse_errors # <<>> =>
              /\ Len(result.parse_errors) = 1
              /\ result.parse_errors[1] \in OverrunMessages
              /\ result.opcode_count = Len(decoded)

C3_Witness ==
    /\ pc = "done"
    /\ ValidHexInput
    /\ result.parse_errors # <<>>
    /\ result.has_metadata
    /\ result.opcode_count >= 2

\* C4 (unknown opcode warning): whenever an unknown byte was decoded, the
\* result carries a warning other than the truncated-operand one.
C4_UnknownOpcodeWarned ==
    (pc = "done" /\ ValidHexInput
        /\ \E i \in 1..Len(decoded) : DecodedByte(i) \notin DOMAIN OPCODES)
    => \E k \in 1..Len(result.parse_errors) :
           result.parse_errors[k] \notin OverrunMessages

\* C5 (unknown bytes): every byte outside the table decodes to UNKNOWN_<two
\* upper-case hex digits> with operand length 0; the loop appends it to both
\* streams, records no warning, moves to the next byte and goes on.
C5_UnknownName(byte) ==
    "UNKNOWN_" \o HexUpper[(byte \div 16) + 1] \o HexUpper[(byte % 16) + 1]

C5_UnknownByteContinues ==
    /\ [][(pc = "loop" /\ position < code_end
             /\ bytecode_bytes[position + 1] \notin DOMAIN OPCODES)
           => \/ UNCHANGED vars
              \/ /\ pc' = "loop"
                 /\ position' = position + 1
                 /\ raw_opcodes' =
                       Append(raw_opcodes, C5_UnknownName(bytecode_bytes[position + 1]))
                 /\ normalized_opcodes' =
                       Append(normalized_opcodes,
                              C5_UnknownName(bytecode_bytes[position + 1]))
                 /\ errors' = errors]_vars
    /\ [](pc = "start" =>
             \A byte \in (0..255) \ DOMAIN OPCODES :
                 get_opcode(byte) = <<C5_UnknownName(byte), 0>>)

C5_Witness ==
    /\ pc = "done"
    /\ \E i \in 1..Len(decoded) - 1 :
          /\ DecodedByte(i) \notin DOMAIN OPCODES
          /\ decoded[i + 1] = decoded[i] + 1

\* C6 (empty or invalid input): an input that is empty once an optional 0x or
\* 0X prefix is removed, or that bytes.fromhex rejects, yields the empty result
\* with exactly one warning, and no exception.
C6_Stripped ==
    IF Len(bytecode) >= 2 /\ bytecode[1] = "0" /\ bytecode[2] \in {"x", "X"}
    THEN SubSeq(bytecode, 3, Len(bytecode))
    ELSE bytecode

C6_EmptyOrInvalid ==
    /\ pc # "raised"
    /\ (pc \notin {"start"} /\ (C6_Stripped = <<>> \/ ~FromHex(C6_Stripped).ok)) =>
          /\ pc = "done"
          /\ result.opcodes = <<>>
          /\ result.raw_opcodes = <<>>
          /\ result.opcode_count = 0
          /\ result.has_metadata = FALSE
          /\ result.metadata_offset = None
          /\ Len(result.parse_errors) = 1

C6_Witness ==
    /\ pc = "done"
    /\ bytecode = <<"0", "X">>
    /\ Len(result.parse_errors) = 1

\* C7 (bounds-checked metadata detection): every index detect_metadata_offset
\* reads lies inside the byte string, an offset it returns is above 0 and
\* below the length, and the decode loop only reads below the end of the
\* executable region, which is never past the end of the bytes.
C7_BoundsChecked ==
    /\ pc # "raised"
    /\ (pc \in {"loop", "return", "done"} /\ ValidHexInput) =>
          /\ \A i \in indexed : 0 <= i /\ i < Len(bytecode_bytes)
          /\ metadata_offset # None =>
                0 < metadata_offset[1] /\ metadata_offset[1] < Len(bytecode_bytes)
          /\ code_end <= Len(bytecode_bytes)
          /\ \A k \in 1..Len(decoded) : 0 <= decoded[k] /\ decoded[k] < code_end

C7_Witness ==
    /\ pc = "done"
    /\ metadata_offset # None
    /\ indexed # {}
    /\ metadata_offset[1] \notin indexed
    /\ decoded # <<>>

\* C8 (length-field rule).  The rule's premises: the last two bytes give a
\* length L with 32 <= L <= 100, the implied offset len - L - 2 is above 0 and
\* the byte there is 0xa1, 0xa2 or 0xa3.
C8_Length == 256 * bytecode_bytes[Len(bytecode_bytes) - 1] + bytecode_bytes[Len(bytecode_bytes)]
C8_Offset == Len(bytecode_bytes) - C8_Length - 2

C8_Premises ==
    /\ pc = "done"
    /\ strip_metadata
    /\ ValidHexInput
    /\ Len(bytecode_bytes) >= 2
    /\ 32 <= C8_Length /\ C8_Length <= 100
    /\ C8_Offset > 0
    /\ bytecode_bytes[C8_Offset + 1] \in {161, 162, 163}

C8_Excluded ==
    /\ result.has_metadata
    /\ result.metadata_offset = Some(C8_Offset)
    /\ \A k \in 1..Len(decoded) : decoded[k] < C8_Offset
    /\ result.original_size = Len(bytecode_bytes)

\* C8 as stated: under the premises the block is excluded.
C8_AsStated == C8_Premises => C8_Excluded

\* C8 amended: under the premises, and when the bytecode is at least 43 bytes
\* long, the block is excluded.
C8_LengthFieldRule ==
    (C8_Premises /\ Len(bytecode_bytes) >= 43) => C8_Excluded

C8_Witness ==
    /\ C8_Premises
    /\ Len(bytecode_bytes) >= 43
    /\ C8_Length = 100
    /\ decoded # <<>>

\* C9 (push collapse in the canonical stream): both streams have opcode_count
\* entries; the canonical mnemonic is PUSH where the raw one is PUSH1..PUSH32
\* and the raw mnemonic elsewhere; 0x6060604052 gives PUSH PUSH MSTORE, raw
\* PUSH1 PUSH1 MSTORE, no metadata.
C9_PushNames ==
    {"PUSH1", "PUSH2", "PUSH3", "PUSH4", "PUSH5", "PUSH6", "PUSH7", "PUSH8",
     "PUSH9", "PUSH10", "PUSH11", "PUSH12", "PUSH13", "PUSH14", "PUSH15",
     "PUSH16", "PUSH17", "PUSH18", "PUSH19", "PUSH20", "PUSH21", "PUSH22",
     "PUSH23", "PUSH24", "PUSH25", "PUSH26", "PUSH27", "PUSH28", "PUSH29",
     "PUSH30", "PUSH31", "PUSH32"}

C9_Scenario == <<"0", "x", "6", "0", "6", "0", "6", "0", "4", "0", "5", "2">>

C9_CanonicalStream ==
    pc = "done" =>
        /\ Len(result.opcodes) = result.opcode_count
        /\ Len(result.raw_opcodes) = result.opcode_count
        /\ \A i \in 1..result.opcode_count :
              result.opcodes[i] =
                  IF result.raw_opcodes[i] \in C9_PushNames THEN "PUSH"
                  ELSE result.raw_opcodes[i]
        /\ bytecode = C9_Scenario =>
              /\ result.opcodes = <<"PUSH", "PUSH", "MSTORE">>
              /\ result.raw_opcodes = <<"PUSH1", "PUSH1", "MSTORE">>
              /\ result.has_metadata = FALSE

C9_Witness ==
    /\ pc = "done"
    /\ bytecode = C9_Scenario
    /\ result.opcode_count = 3

(***************************************************************************)
(* parse_bytecode on two bytecodes that differ in push operands            *)
(***************************************************************************)

\* Code before the push, the operands tried for each push width, and code
\* after the push.  The operands include a length field (0x0028), the
\* literal "bzzr" and opcode-valued bytes.
PairHeads == {<<>>, <<0>>, <<0, 161>> \o Repeat(0, 38), <<91, 96, 0>>}
PairTails == {<<>>, <<82>>, Repeat(0, 10), Repeat(91, 40)}
PairWidths == {1, 2, 32}

PairOperands(width) ==
    CASE width = 1 -> {<<0>>, <<96>>, <<162>>}
      [] width = 2 -> {<<0, 0>>, <<0, 40>>, <<0, 39>>, <<96, 97>>}
      [] width = 32 -> {Repeat(0, 32),
                        bzzr_marker \o Repeat(0, 28),
                        <<0, 0>> \o bzzr_marker \o Repeat(0, 26),
                        Repeat(0, 10) \o bzzr_marker \o Repeat(0, 18)}

PairCode(head, width, operand, tail) == head \o <<95 + width>> \o operand \o tail

PairIdleOthers == ParseIdle /\ BatchIdle /\ LaterIdle

PairInit ==
    /\ \E head \in PairHeads, tail \in PairTails, width \in PairWidths :
          \E first \in PairOperands(width), second \in PairOperands(width) :
              pair = << <<"0", "x">> \o ToHex(PairCode(head, width, first, tail)),
                        <<"0", "x">> \o ToHex(PairCode(head, width, second, tail)) >>
    /\ pair_result = <<>>
    /\ PairIdleOthers

\* Both strings are normalized with the default arguments.
ParsePair ==
    /\ pair # <<>>
    /\ pair_result = <<>>
    /\ pair_result' = <<parse_bytecode(pair[1], TRUE), parse_bytecode(pair[2], TRUE)>>
    /\ UNCHANGED <<pair, parseVars, batchVars, laterVars>>

\* The canonical streams are handed to the caller (get_opcode_sequence).
PairNext == ParsePair

PairSpec == PairInit /\ [][PairNext]_vars

\* The indices a linear decode of the whole byte string takes opcodes from,
\* starting at Python index i.
RECURSIVE OpcodeIndices(_, _)
OpcodeIndices(b, i) ==
    IF i >= Len(b) THEN {}
    ELSE {i} \cup OpcodeIndices(b, i + 1 + (IF b[i + 1] \in 96..127 THEN b[i + 1] - 95 ELSE 0))

\* Two hex strings of equal length with the same opcode bytes at the same
\* positions: they differ at most in the bytes that follow push instructions.
C1_DifferOnlyInOperands(x, y) ==
    LET a == FromHex(DropFirst(x, 2)).bytes
        b == FromHex(DropFirst(y, 2)).bytes
    IN  /\ Len(x) = Len(y)
        /\ OpcodeIndices(a, 0) = OpcodeIndices(b, 0)
        /\ \A i \in OpcodeIndices(a, 0) : a[i + 1] = b[i + 1]

\* C1 (push collapse): two bytecodes that differ only in push operands have
\* the same canonical instruction stream.
C1_PushCollapse ==
    (pair_result # <<>> /\ C1_DifferOnlyInOperands(pair[1], pair[2]))
    => pair_result[1].opcodes = pair_result[2].opcodes

(***************************************************************************)
(* fingerprint.py: the counters of a fingerprint                           *)
(***************************************************************************)

\* opcodes.count(name)
Count(opcodes, name) == Cardinality({i \in 1..Len(opcodes) : opcodes[i] = name})

\* Mutant: the distinct mnemonics of the set are counted, not their
\* occurrences.
count_opcodes_by_type_distinct(opcodes, target_set) ==
    Cardinality({opcodes[i] : i \in 1..Len(opcodes)} \cap target_set)

\* count_opcodes_by_type(opcodes, target_set)
count_opcodes_by_type(opcodes, target_set) ==
    Cardinality({i \in 1..Len(opcodes) : opcodes[i] \in target_set})

LoopLookahead == 50

\* Mutant: a distance of exactly 50 still counts.
WithinLookahead_inclusive(distance) == distance <= LoopLookahead

\* if distance_from_jumpdest < 50
WithinLookahead(distance) == distance < LoopLookahead

\* Mutant: in_potential_loop is not cleared by a counted JUMPI.
DetectLoopsStep_sticky(st, op) ==
    IF op = "JUMPDEST"
    THEN [st EXCEPT !.in_potential_loop = TRUE, !.distance_from_jumpdest = 0]
    ELSE IF op = "JUMPI" /\ st.in_potential_loop
    THEN [st EXCEPT !.loop_count = IF WithinLookahead(st.distance_from_jumpdest)
                                   THEN @ + 1 ELSE @]
    ELSE [st EXCEPT !.distance_from_jumpdest = @ + 1]

\* The body of the for loop of detect_loops, on its three locals.
DetectLoopsStep(st, op) ==
    IF op = "JUMPDEST"
    THEN [st EXCEPT !.in_potential_loop = TRUE, !.distance_from_jumpdest = 0]
    ELSE IF op = "JUMPI" /\ st.in_potential_loop
    THEN [st EXCEPT !.loop_count = IF WithinLookahead(st.distance_from_jumpdest)
                                   THEN @ + 1 ELSE @,
                    !.in_potential_loop = FALSE]
    ELSE [st EXCEPT !.distance_from_jumpdest = @ + 1]

RECURSIVE DetectLoopsFrom(_, _, _)
DetectLoopsFrom(opcodes, i, st) ==
    IF i > Len(opcodes) THEN st
    ELSE DetectLoopsFrom(opcodes, i + 1, DetectLoopsStep(st, opcodes[i]))

\* detect_loops(opcodes)
detect_loops(opcodes) ==
    DetectLoopsFrom(opcodes, 1,
        [loop_count |-> 0, in_potential_loop |-> FALSE,
         distance_from_jumpdest |-> 0]).loop_count

\* "|".join(opcodes[i:i + n]) for the window starting at Python index i.
RECURSIVE JoinFrom(_, _, _)
JoinFrom(opcodes, first, last) ==
    IF first = last THEN opcodes[first]
    ELSE opcodes[first] \o "|" \o JoinFrom(opcodes, first + 1, last)

NgramAt(opcodes, i, n) == JoinFrom(opcodes, i + 1, i + n)

\* Mutant: the last window is left out.
WindowStarts_short(length, n) == 0..(length - n - 1)

\* range(len(opcodes) - n + 1)
WindowStarts(length, n) == 0..(length - n)

\* generate_ngrams(opcodes, n): a dict from n-gram to count; the Counter
\* adds one per window start.
generate_ngrams(opcodes, n) ==
    IF Len(opcodes) < n THEN <<>>
    ELSE LET starts == WindowStarts(Len(opcodes), n)
             keys == {NgramAt(opcodes, i, n) : i \in starts}
         IN  [ngram \in keys |->
                 Cardinality({i \in starts : NgramAt(opcodes, i, n) = ngram})]

\* hash_ngrams(ngrams): "empty" for the empty dict, otherwise the first 16
\* hex digits of the SHA-256 of the sorted items, taken as a value that
\* stands for the dict it was computed from.
hash_ngrams(ngrams) ==
    IF DOMAIN ngrams = {} THEN <<"empty">> ELSE <<"sha256[:16]", ngrams>>

\* A float obtained as the quotient of two small non-negative integers, kept
\* as the fraction in lowest terms (distinct fractions give distinct floats).
RECURSIVE GCD(_, _)
GCD(a, b) == IF b = 0 THEN a ELSE GCD(b, a % b)

Quotient(num, den) == [num |-> num \div GCD(num, den), den |-> den \div GCD(num, den)]

\* 0.0
ZeroFloat == [num |-> 0, den |-> 1]

\* int(x * 1000) for a quotient of two integers.
IntTimes1000(x) == (1000 * x.num) \div x.den

\* The decimal digits of a non-negative integer, as characters.
RECURSIVE DecimalDigits(_)
DecimalDigits(value) ==
    IF value < 10 THEN <<ToString(value)>>
    ELSE DecimalDigits(value \div 10) \o <<ToString(value % 10)>>

\* f"{value:0<width>d}": zero-padded up to the width, never cut.
FormatZeroPadded(value, width) ==
    LET digits == DecimalDigits(value)
    IN  Repeat("0", Max(0, width - Len(digits))) \o digits

\* compute_control_flow_signature
compute_control_flow_signature(jump_count, jumpdest_count, branch_density, call_count, has_selfdestruct) ==
    <<"J">> \o FormatZeroPadded(jump_count, 4)
    \o <<"D">> \o FormatZeroPadded(jumpdest_count, 4)
    \o <<"B">> \o FormatZeroPadded(IntTimes1000(branch_density), 4)
    \o <<"C">> \o FormatZeroPadded(call_count, 3)
    \o <<"S">> \o (IF has_selfdestruct THEN <<"1">> ELSE <<"0">>)

\* compute_shape_signature
compute_shape_signature(opcode_count, unique_opcodes, unique_ratio) ==
    <<"O">> \o FormatZeroPadded(opcode_count, 6)
    \o <<"U">> \o FormatZeroPadded(unique_opcodes, 3)
    \o <<"R">> \o FormatZeroPadded(IntTimes1000(unique_ratio), 4)

\* Mutant: the literal shape signature is one zero short.
EmptyFingerprint_short(address) ==
    [address |-> address,
     trigram_hash |-> <<"empty">>, quadgram_hash |-> <<"empty">>,
     pentagram_hash |-> <<"empty">>, trigrams |-> <<>>, quadgrams |-> <<>>,
     jump_count |-> 0, jumpdest_count |-> 0, branch_density |-> ZeroFloat,
     sstore_count |-> 0, sload_count |-> 0, call_count |-> 0,
     has_selfdestruct |-> FALSE, has_delegatecall |-> FALSE,
     opcode_count |-> 0, unique_opcodes |-> 0, unique_ratio |-> ZeroFloat,
     estimated_loops |-> 0,
     control_flow_signature |->
        <<"J","0","0","0","0","D","0","0","0","0","B","0","0","0","0",
          "C","0","0","0","S","0">>,
     shape_signature |->
        <<"O","0","0","0","0","0","U","0","0","0","R","0","0","0","0">>]

\* generate_fingerprint, "if not opcodes": the literal fingerprint returned.
EmptyFingerprint(address) ==
    [address |-> address,
     trigram_hash |-> <<"empty">>, quadgram_hash |-> <<"empty">>,
     pentagram_hash |-> <<"empty">>, trigrams |-> <<>>, quadgrams |-> <<>>,
     jump_count |-> 0, jumpdest_count |-> 0, branch_density |-> ZeroFloat,
     sstore_count |-> 0, sload_count |-> 0, call_count |-> 0,
     has_selfdestruct |-> FALSE, has_delegatecall |-> FALSE,
     opcode_count |-> 0, unique_opcodes |-> 0, unique_ratio |-> ZeroFloat,
     estimated_loops |-> 0,
     control_flow_signature |->
        <<"J","0","0","0","0","D","0","0","0","0","B","0","0","0","0",
          "C","0","0","0","S","0">>,
     shape_signature |->
        <<"O","0","0","0","0","0","0","U","0","0","0","R","0","0","0","0">>]

\* generate_fingerprint on a non-empty stream, given what detect_loops
\* returned for it.
ContractFingerprint(address, opcodes, estimated_loops) ==
    LET jump_count == Count(opcodes, "JUMP") + Count(opcodes, "JUMPI")
        jumpdest_count == Count(opcodes, "JUMPDEST")
        jumpi_count == Count(opcodes, "JUMPI")
        branch_density == Quotient(jumpi_count, Len(opcodes))
        call_count == count_opcodes_by_type(opcodes, CALL_OPCODES)
        has_selfdestruct == \E i \in 1..Len(opcodes) : opcodes[i] = "SELFDESTRUCT"
        opcode_count == Len(opcodes)
        unique_opcodes == Cardinality({opcodes[i] : i \in 1..Len(opcodes)})
        unique_ratio == Quotient(unique_opcodes, opcode_count)
    IN  [address |-> address,
         trigram_hash |-> hash_ngrams(generate_ngrams(opcodes, 3)),
         quadgram_hash |-> hash_ngrams(generate_ngrams(opcodes, 4)),
         pentagram_hash |-> hash_ngrams(generate_ngrams(opcodes, 5)),
         trigrams |-> generate_ngrams(opcodes, 3),
         quadgrams |-> generate_ngrams(opcodes, 4),
         jump_count |-> jump_count,
         jumpdest_count |-> jumpdest_count,
         branch_density |-> branch_density,
         sstore_count |-> Count(opcodes, "SSTORE"),
         sload_count |-> Count(opcodes, "SLOAD"),
         call_count |-> call_count,
         has_selfdestruct |-> has_selfdestruct,
         has_delegatecall |-> \E i \in 1..Len(opcodes) : opcodes[i] = "DELEGATECALL",
         opcode_count |-> opcode_count,
         unique_opcodes |-> unique_opcodes,
         unique_ratio |-> unique_ratio,
         estimated_loops |-> estimated_loops,
         control_flow_signature |->
            compute_control_flow_signature(jump_count, jumpdest_count,
                                           branch_density, call_count, has_selfdestruct),
         shape_signature |->
            compute_shape_signature(opcode_count, unique_opcodes, unique_ratio)]

\* generate_fingerprint(address, opcodes)
generate_fingerprint(address, opcodes) ==
    IF opcodes = <<>> THEN EmptyFingerprint(address)
    ELSE ContractFingerprint(address, opcodes, detect_loops(opcodes))

(***************************************************************************)
(* main.py: process_contracts                                              *)
(***************************************************************************)

\* Values a JSON document can hold under a key: a string, null, a number.
PyStr(chars) == [type |-> "str", value |-> chars]
PyNone == [type |-> "NoneType"]
PyInt(n) == [type |-> "int", number |-> n]

\* bool(value)
Truthy(value) ==
    CASE value.type = "str" -> value.value # <<>>
      [] value.type = "int" -> value.number # 0
      [] value.type = "NoneType" -> FALSE

\* d.get(key, default)
DictGet(d, key, default) == IF key \in DOMAIN d THEN d[key] ELSE default

\* Longest list of records handed to process_contracts.
MaxContracts == 3

AddressOf == <<"0xa1", "0xa2", "0xa3", "0xa4", "0xa5">>

\* What a record holds under runtime_bytecode: nothing ("missing"), null,
\* the bare prefix, invalid hex, a number, or bytecode.
BytecodeChoices ==
    {PyNone, PyStr(<<"0", "x">>), PyStr(<<"z", "z">>), PyInt(7),
     PyStr(<<"0", "x", "6", "0", "0", "1">>)}

\* The records that can stand at place i of the list.
RecordsAt(i) ==
    {[address |-> AddressOf[i], runtime_bytecode |-> b] : b \in BytecodeChoices}
    \cup {[runtime_bytecode |-> b] : b \in BytecodeChoices}
    \cup {[address |-> AddressOf[i]]}
    \cup {[other |-> PyNone]}

ContractLists ==
    UNION {{c \in [1..n -> UNION {RecordsAt(i) : i \in 1..n}] :
               \A i \in 1..n : c[i] \in RecordsAt(i)} : n \in 0..MaxContracts}

BatchInit ==
    /\ contracts \in ContractLists
    /\ verbose \in BOOLEAN
    /\ batch_pc = "start"
    /\ cursor = 0
    /\ fingerprints = <<>>
    /\ record_errors = <<>>
    /\ stdout = <<>>
    /\ ParseIdle
    /\ PairIdle
    /\ LaterIdle

\* fingerprints = []; errors = []; the "Processing n contracts..." line.
BatchStart ==
    /\ batch_pc = "start"
    /\ fingerprints' = <<>>
    /\ record_errors' = <<>>
    /\ stdout' = IF verbose
                 THEN Append(stdout, "\nProcessing " \o ToString(Len(contracts))
                                         \o " contracts...")
                 ELSE stdout
    /\ cursor' = 1
    /\ batch_pc' = "loop"
    /\ UNCHANGED <<contracts, verbose, parseVars, pairVars, laterVars>>

\* The record the for loop is at, and its bytecode as the loop body reads it.
InLoop == batch_pc = "loop" /\ cursor <= Len(contracts)
contract == contracts[cursor]
record_bytecode == DictGet(contract, "runtime_bytecode", PyStr(<<>>))

\* if not bytecode or bytecode == '0x'
IsEmptyBytecode(value) ==
    IF ~Truthy(value) THEN TRUE ELSE value = PyStr(<<"0", "x">>)

\* Whether get_opcode_sequence(bytecode) raises inside the try block, and the
\* text of the exception: str methods called on a non-string, or whatever
\* parse_bytecode raises.
OpcodesRaise(value) ==
    IF value.type # "str" THEN TRUE
    ELSE IsRaised(parse_bytecode(value.value, TRUE))

ExceptionText(value) ==
    IF value.type # "str"
    THEN "'" \o value.type \o "' object has no attribute 'startswith'"
    ELSE parse_bytecode(value.value, TRUE).exception

\* address = contract['address'] on a record without the key: KeyError, raised
\* outside the try block, leaves process_contracts.
RecordKeyError ==
    /\ InLoop
    /\ "address" \notin DOMAIN contract
    /\ batch_pc' = "raised"
    /\ UNCHANGED <<contracts, verbose, cursor, fingerprints, record_errors,
                   stdout, parseVars, pairVars, laterVars>>

\* errors.append(f"Empty bytecode for {address}"); continue
RecordEmpty ==
    /\ InLoop
    /\ "address" \in DOMAIN contract
    /\ IsEmptyBytecode(record_bytecode)
    /\ record_errors' = Append(record_errors, "Empty bytecode for " \o contract.address)
    /\ cursor' = cursor + 1
    /\ UNCHANGED <<contracts, verbose, batch_pc, fingerprints, stdout,
                   parseVars, pairVars, laterVars>>

\* except Exception as e: errors.append(f"Error processing {address}: {e}")
RecordException ==
    /\ InLoop
    /\ "address" \in DOMAIN contract
    /\ ~IsEmptyBytecode(record_bytecode)
    /\ OpcodesRaise(record_bytecode)
    /\ record_errors' =
          Append(record_errors,
                 "Error processing " \o contract.address \o ": "
                     \o ExceptionText(record_bytecode))
    /\ cursor' = cursor + 1
    /\ UNCHANGED <<contracts, verbose, batch_pc, fingerprints, stdout,
                   parseVars, pairVars, laterVars>>

\* Mutant: a record without opcodes is passed over without an error.
RecordNoOpcodes_silent ==
    /\ InLoop
    /\ "address" \in DOMAIN contract
    /\ ~IsEmptyBytecode(record_bytecode)
    /\ ~OpcodesRaise(record_bytecode)
    /\ get_opcode_sequence(record_bytecode.value) = <<>>
    /\ cursor' = cursor + 1
    /\ UNCHANGED <<contracts, verbose, batch_pc, fingerprints, record_errors,
                   stdout, parseVars, pairVars, laterVars>>

\* if not opcodes: errors.append(f"No opcodes parsed for {address}"); continue
RecordNoOpcodes ==
    /\ InLoop
    /\ "address" \in DOMAIN contract
    /\ ~IsEmptyBytecode(record_bytecode)
    /\ ~OpcodesRaise(record_bytecode)
    /\ get_opcode_sequence(record_bytecode.value) = <<>>
    /\ record_errors' = Append(record_errors, "No opcodes parsed for " \o contract.address)
    /\ cursor' = cursor + 1
    /\ UNCHANGED <<contracts, verbose, batch_pc, fingerprints, stdout,
                   parseVars, pairVars, laterVars>>

\* fp = generate_fingerprint(address, opcodes); fingerprints.append(fp)
RecordFingerprinted ==
    /\ InLoop
    /\ "address" \in DOMAIN contract
    /\ ~IsEmptyBytecode(record_bytecode)
    /\ ~OpcodesRaise(record_bytecode)
    /\ get_opcode_sequence(record_bytecode.value) # <<>>
    /\ fingerprints' =
          Append(fingerprints,
                 generate_fingerprint(contract.address,
                                      get_opcode_sequence(record_bytecode.value)))
    /\ cursor' = cursor + 1
    /\ UNCHANGED <<contracts, verbose, batch_pc, record_errors, stdout,
                   parseVars, pairVars, laterVars>>

WarningsShown == 10

\* The lines printed after the loop: the header, the first 10 errors, and
\* the count of the rest.
WarningLines(errs) ==
    <<"\nWarnings (" \o ToString(Len(errs)) \o "):">>
    \o [i \in 1..Min(Len(errs), WarningsShown) |-> "  - " \o errs[i]]
    \o (IF Len(errs) > WarningsShown
        THEN <<"  ... and " \o ToString(Len(errs) - WarningsShown) \o " more">>
        ELSE <<>>)

\* The loop is over: print the warnings when verbose, return fingerprints.
BatchReturn ==
    /\ batch_pc = "loop"
    /\ cursor > Len(contracts)
    /\ stdout' = IF verbose /\ record_errors # <<>>
                 THEN stdout \o WarningLines(record_errors)
                 ELSE stdout
    /\ batch_pc' = "returned"
    /\ UNCHANGED <<contracts, verbose, cursor, fingerprints, record_errors,
                   parseVars, pairVars, laterVars>>

BatchNext ==
    \/ BatchStart
    \/ RecordKeyError
    \/ RecordEmpty
    \/ RecordException
    \/ RecordNoOpcodes
    \/ RecordFingerprinted
    \/ BatchReturn

BatchSpec == BatchInit /\ [][BatchNext]_vars

\* A record lacks its identifier or its bytecode.
C10_MissingField(record) ==
    "address" \notin DOMAIN record \/ "runtime_bytecode" \notin DOMAIN record

\* A record process_contracts can fingerprint: an address and bytecode that
\* decodes to at least one instruction.
C10_Fingerprintable(record) ==
    /\ "address" \in DOMAIN record
    /\ "runtime_bytecode" \in DOMAIN record
    /\ record.runtime_bytecode = PyStr(<<"0", "x", "6", "0", "0", "1">>)

\* C10 (per-record input errors): no record aborts the batch; once the batch
\* has returned, every record missing its address or its bytecode is counted
\* among the errors and every fingerprintable record has its fingerprint.
C10_SkipCountContinue ==
    /\ batch_pc # "raised"
    /\ batch_pc = "returned" =>
          /\ Len(record_errors) >=
                Cardinality({i \in 1..Len(contracts) : C10_MissingField(contracts[i])})
          /\ \A i \in 1..Len(contracts) :
                C10_Fingerprintable(contracts[i]) =>
                    \E k \in 1..Len(fingerprints) :
                        fingerprints[k].address = contracts[i].address

\* What the caller of process_contracts can observe of the skipped records:
\* the lines printed (the function returns the fingerprints only).
C11_Printed(line) == \E k \in 1..Len(stdout) : stdout[k] = line

\* C11 (no silent drops): once process_contracts has returned, every skipped
\* record is surfaced to the caller, whatever the verbosity: the number of
\* skipped records and the reason of each one are reported.
C11_SkipsSurfaced ==
    (batch_pc = "returned" /\ record_errors # <<>>) =>
        /\ C11_Printed("\nWarnings (" \o ToString(Len(record_errors)) \o "):")
        /\ \A k \in 1..Len(record_errors) : C11_Printed("  - " \o record_errors[k])

(***************************************************************************)
(* Similarity engine: bulk scoreAll (compute_all_similarities)             *)
(***************************************************************************)

\* Longest corpus handed to scoreAll.
MaxFingerprints == 3
\* Largest maxMatchesPerItem.
MaxMatches == 2

\* overallScore lies in [0,1]; the model takes it in halves.
ScoreLevels == 0..2

\* The key of the unordered pair of fingerprints i and j (score is symmetric).
PairKey(i, j) == <<Min(i, j), Max(i, j)>>

\* The scores score(A, B) can return for fingerprints i and j: any level the
\* first time the pair is scored, the same one ever after.
ScoresOf(i, j) ==
    IF PairKey(i, j) \in DOMAIN pair_scores
    THEN {pair_scores[PairKey(i, j)]}
    ELSE ScoreLevels

\* One SimilarityResult: subject, matched item, overallScore.
SimilarityResult(i, j, score) ==
    [contract_address |-> score_fingerprints[i],
     matched_address |-> score_fingerprints[j],
     similarity_score |-> score]

\* Mutant: a pair scoring exactly the threshold is discarded.
MeetsThreshold_strict(score, limit) == score > limit

\* Pairs below threshold are discarded immediately.
MeetsThreshold(score, limit) == score >= limit

\* Mutant: every other fingerprint is a partner, so each unordered pair is
\* evaluated once per direction.
PartnersOf_both(i, n) == (1..n) \ {i}

\* The fingerprints subject i is compared with: each unordered pair once.
PartnersOf(i, n) == (i + 1)..n

\* The pair the scan evaluates after <<i, j>> (j = i for the pair before the
\* first of subject i); <<n + 1, 0>> when no pair is left.
RECURSIVE PairAfter(_, _, _)
PairAfter(i, j, n) ==
    IF i > n THEN <<n + 1, 0>>
    ELSE LET rest == {k \in PartnersOf(i, n) : k > j \/ j = i}
         IN  IF rest # {}
             THEN <<i, CHOOSE k \in rest : \A m \in rest : k <= m>>
             ELSE PairAfter(i + 1, i + 1, n)

\* The lowest score a top-K structure holds.
MinScore(heap) ==
    CHOOSE m \in {heap[k].similarity_score : k \in 1..Len(heap)} :
        \A k \in 1..Len(heap) : m <= heap[k].similarity_score

\* The heap without its element at index k.
Without(heap, k) == SubSeq(heap, 1, k - 1) \o SubSeq(heap, k + 1, Len(heap))

\* Mutant: the structure takes one result more than its capacity.
HasRoom_extra(heap, capacity) == Len(heap) <= capacity

\* The fixed-capacity top-K structure still has room.
HasRoom(heap, capacity) == Len(heap) < capacity

\* Offering a result to a subject's top-K structure: the structures that can
\* come out, each with the result it dropped.  A tie with the lowest score
\* held is decided either way (the rule is left open).
Offer(heap, item, capacity) ==
    IF HasRoom(heap, capacity)
    THEN {[heap |-> Append(heap, item), dropped |-> {}]}
    ELSE IF heap = <<>>
    THEN {[heap |-> heap, dropped |-> {item}]}
    ELSE LET lowest == {k \in 1..Len(heap) : heap[k].similarity_score = MinScore(heap)}
             replaced == {[heap |-> Append(Without(heap, k), item),
                           dropped |-> {heap[k]}] : k \in lowest}
             kept == {[heap |-> heap, dropped |-> {item}]}
         IN  IF item.similarity_score > MinScore(heap) THEN replaced
             ELSE IF item.similarity_score = MinScore(heap) THEN replaced \cup kept
             ELSE kept

\* Mutant: lowest score first.
InOrder_ascending(first, second) == first.similarity_score <= second.similarity_score

\* Two neighbours of a subject's returned list are in descending score order.
InOrder(first, second) == first.similarity_score >= second.similarity_score

\* The arrangements of a retained list the subject's results can be returned in.
Arrangements(heap) ==
    {[k \in 1..Len(heap) |-> heap[f[k]]] :
        f \in {g \in [1..Len(heap) -> 1..Len(heap)] :
                  /\ \A a, b \in 1..Len(heap) : a # b => g[a] # g[b]
                  /\ \A a \in 1..(Len(heap) - 1) : InOrder(heap[g[a]], heap[g[a + 1]])}}

\* The concatenation of every subject's returned list, subjects from s on.
RECURSIVE Concatenations(_, _)
Concatenations(lists, s) ==
    IF s > Len(lists) THEN {<<>>}
    ELSE {head \o tail : head \in Arrangements(lists[s]),
                         tail \in Concatenations(lists, s + 1)}

ScoreInit ==
    /\ score_fingerprints \in {[i \in 1..n |-> AddressOf[i]] : n \in 0..MaxFingerprints}
    /\ pair_scores = <<>>
    /\ threshold \in ScoreLevels
    /\ max_matches \in 1..MaxMatches
    /\ score_pc = "start"
    /\ pair_i = 0
    /\ pair_j = 0
    /\ retained = <<>>
    /\ evaluated = <<>>
    /\ discarded = {}
    /\ similarities = Unset
    /\ ParseIdle
    /\ PairIdle
    /\ BatchIdle
    /\ FingerprintIdle
    /\ RunIdle
    /\ ToolIdle

\* CorpusError: fewer than two fingerprints supplied to bulk scoring.
ScoreCorpusError ==
    /\ score_pc = "start"
    /\ Len(score_fingerprints) < 2
    /\ score_pc' = "raised"
    /\ UNCHANGED <<score_fingerprints, pair_scores, threshold, max_matches, pair_i,
                   pair_j, retained, evaluated, discarded, similarities>>
    /\ UNCHANGED <<parseVars, pairVars, batchVars, fpVars, runVars, toolVars>>

\* One empty top-K structure per subject; the scan starts at the first pair.
ScoreStart ==
    /\ score_pc = "start"
    /\ Len(score_fingerprints) >= 2
    /\ retained' = [subject \in 1..Len(score_fingerprints) |-> <<>>]
    /\ pair_i' = PairAfter(1, 1, Len(score_fingerprints))[1]
    /\ pair_j' = PairAfter(1, 1, Len(score_fingerprints))[2]
    /\ score_pc' = "scan"
    /\ UNCHANGED <<score_fingerprints, pair_scores, threshold, max_matches,
                   evaluated, discarded, similarities>>
    /\ UNCHANGED <<parseVars, pairVars, batchVars, fpVars, runVars, toolVars>>

\* One pair of the scan: score it, discard it below threshold, otherwise
\* offer it to the subject's top-K structure; then move to the next pair.
EvaluatePair ==
    /\ score_pc = "scan"
    /\ pair_i <= Len(score_fingerprints)
    /\ \E score \in ScoresOf(pair_i, pair_j) :
          /\ pair_scores' = (PairKey(pair_i, pair_j) :> score) @@ pair_scores
          /\ IF MeetsThreshold(score, threshold)
             THEN \E offer \in Offer(retained[pair_i],
                                     SimilarityResult(pair_i, pair_j, score),
                                     max_matches) :
                      /\ retained' = [retained EXCEPT ![pair_i] = offer.heap]
                      /\ discarded' = discarded \cup offer.dropped
             ELSE UNCHANGED <<retained, discarded>>
    /\ evaluated' = Append(evaluated, <<pair_i, pair_j>>)
    /\ pair_i' = PairAfter(pair_i, pair_j, Len(score_fingerprints))[1]
    /\ pair_j' = PairAfter(pair_i, pair_j, Len(score_fingerprints))[2]
    /\ UNCHANGED <<score_fingerprints, threshold, max_matches, score_pc, similarities>>
    /\ UNCHANGED <<parseVars, pairVars, batchVars, fpVars, runVars, toolVars>>

\* The scan is over: return the concatenation of every subject's retained
\* list, each in descending score order.
ScoreReturn ==
    /\ score_pc = "scan"
    /\ pair_i > Len(score_fingerprints)
    /\ similarities' \in Concatenations(retained, 1)
    /\ score_pc' = "returned"
    /\ UNCHANGED <<score_fingerprints, pair_scores, threshold, max_matches, pair_i,
                   pair_j, retained, evaluated, discarded>>
    /\ UNCHANGED <<parseVars, pairVars, batchVars, fpVars, runVars, toolVars>>

ScoreNext ==
    \/ ScoreCorpusError
    \/ ScoreStart
    \/ EvaluatePair
    \/ ScoreReturn

ScoreSpec == ScoreInit /\ [][ScoreNext]_vars

(***************************************************************************)
(* Properties of scoreAll                                                  *)
(***************************************************************************)

\* The result of the k-th evaluation of the scan.
EvaluatedResult(k) ==
    SimilarityResult(evaluated[k][1], evaluated[k][2],
                     pair_scores[PairKey(evaluated[k][1], evaluated[k][2])])

\* The results a subject's top-K structure holds, as a set.
RetainedOf(subject) == {retained[subject][k] : k \in 1..Len(retained[subject])}

\* The results of the returned sequence, as a set.
Returned == {similarities[k] : k \in 1..Len(similarities)}

\* The scan is under way or over.
Scanning == score_pc \in {"scan", "returned"}

\* C13 (threshold law): every result held or returned has overallScore >=
\* threshold, and every evaluated pair that no top-K structure dropped and
\* that is not held (absent solely because of the threshold) has
\* overallScore < threshold.
C13_ThresholdLaw ==
    Scanning =>
        /\ \A subject \in 1..Len(retained) :
              \A r \in RetainedOf(subject) : r.similarity_score >= threshold
        /\ score_pc = "returned" =>
              \A r \in Returned : r.similarity_score >= threshold
        /\ \A k \in 1..Len(evaluated) :
              (/\ EvaluatedResult(k) \notin RetainedOf(evaluated[k][1])
               /\ EvaluatedResult(k) \notin discarded)
                  => EvaluatedResult(k).similarity_score < threshold

\* A run returned a result scoring exactly the threshold and excluded
\* another pair by the threshold.
C13_Witness ==
    /\ score_pc = "returned"
    /\ \E r \in Returned : r.similarity_score = threshold
    /\ \E k \in 1..Len(evaluated) :
          /\ EvaluatedResult(k) \notin Returned
          /\ EvaluatedResult(k) \notin discarded

\* The evaluated results of a subject that meet the threshold.
C14_Candidates(subject) ==
    {EvaluatedResult(k) : k \in {m \in 1..Len(evaluated) :
        /\ evaluated[m][1] = subject
        /\ EvaluatedResult(m).similarity_score >= threshold}}

\* The results of the returned sequence that belong to a subject.
C14_ReturnedOf(subject) ==
    {k \in 1..Len(similarities) :
        similarities[k].contract_address = score_fingerprints[subject]}

\* C14 (bounded retention): at every point of the scan and in the output,
\* each subject holds at most maxMatchesPerItem results, they are candidates
\* seen for that subject, none is lost except by the bound, and every
\* candidate dropped scores no higher than every one held.
C14_BoundedRetention ==
    Scanning =>
        \A subject \in 1..Len(retained) :
            /\ Len(retained[subject]) <= max_matches
            /\ Cardinality(RetainedOf(subject)) = Len(retained[subject])
            /\ RetainedOf(subject) \subseteq C14_Candidates(subject)
            /\ C14_Candidates(subject) \ RetainedOf(subject) \subseteq discarded
            /\ \A d \in C14_Candidates(subject) \ RetainedOf(subject) :
                  /\ Len(retained[subject]) = max_matches
                  /\ \A r \in RetainedOf(subject) :
                        r.similarity_score >= d.similarity_score
            /\ score_pc = "returned" =>
                  /\ Cardinality(C14_ReturnedOf(subject)) <= max_matches
                  /\ {similarities[k] : k \in C14_ReturnedOf(subject)}
                        = RetainedOf(subject)

\* A returned run in which a full structure dropped a candidate that scored
\* less than one it holds.
C14_Witness ==
    /\ score_pc = "returned"
    /\ \E subject \in 1..Len(retained) :
          /\ Len(retained[subject]) = max_matches
          /\ \E d \in C14_Candidates(subject) \ RetainedOf(subject) :
                \E r \in RetainedOf(subject) :
                    r.similarity_score > d.similarity_score

\* C15 (within-subject order): in the returned sequence the results of one
\* subject appear in descending overallScore order.
C15_DescendingPerSubject ==
    score_pc = "returned" =>
        \A a, b \in 1..Len(similarities) :
            (a < b /\ similarities[a].contract_address = similarities[b].contract_address)
                => similarities[a].similarity_score >= similarities[b].similarity_score

\* A subject was returned with two results of different scores.
C15_Witness ==
    /\ score_pc = "returned"
    /\ \E a, b \in 1..Len(similarities) :
          /\ a < b
          /\ similarities[a].contract_address = similarities[b].contract_address
          /\ similarities[a].similarity_score > similarities[b].similarity_score

\* The unordered pairs of a corpus of n fingerprints, as pairs of indices.
C16_UnorderedPairs(n) == {p \in (1..n) \X (1..n) : p[1] < p[2]}

\* How often the scan evaluated the unordered pair p, in either direction.
C16_Evaluations(p) ==
    Cardinality({k \in 1..Len(evaluated) :
                    evaluated[k] = p \/ evaluated[k] = <<p[2], p[1]>>})

\* C16 (each unordered pair once): no pair is ever evaluated twice, a
\* finished scan has evaluated every unordered pair exactly once, n(n-1)/2
\* evaluations in all, and a corpus of two whose pair meets the threshold
\* returns exactly one result.
C16_EachPairOnce ==
    Scanning =>
        LET n == Len(score_fingerprints)
        IN  /\ \A p \in C16_UnorderedPairs(n) : C16_Evaluations(p) <= 1
            /\ \A k \in 1..Len(evaluated) : evaluated[k][1] # evaluated[k][2]
            /\ score_pc = "returned" =>
                  /\ \A p \in C16_UnorderedPairs(n) : C16_Evaluations(p) = 1
                  /\ 2 * Len(evaluated) = n * (n - 1)
                  /\ (n = 2 /\ pair_scores[<<1, 2>>] >= threshold)
                        => Len(similarities) = 1

\* A corpus of two whose pair meets the threshold was scored.
C16_Witness ==
    /\ score_pc = "returned"
    /\ Len(score_fingerprints) = 2
    /\ pair_scores[<<1, 2>>] >= threshold
    /\ Len(similarities) = 1

(***************************************************************************)
(* main.py: run_pipeline and main                                          *)
(***************************************************************************)

\* The records of the corpora run_pipeline is run on: fingerprintable, empty
\* bytecode, invalid hex, bytecode that is not a string, no address, no
\* bytecode.
RunRecordsAt(i) ==
    {[address |-> AddressOf[i],
      runtime_bytecode |-> PyStr(<<"0", "x", "6", "0", "0", "1">>)],
     [address |-> AddressOf[i], runtime_bytecode |-> PyStr(<<"0", "x">>)],
     [address |-> AddressOf[i], runtime_bytecode |-> PyStr(<<"z", "z">>)],
     [address |-> AddressOf[i], runtime_bytecode |-> PyInt(7)],
     [runtime_bytecode |-> PyStr(<<"0", "x", "6", "0", "0", "1">>)],
     [address |-> AddressOf[i]]}

RunContractLists ==
    UNION {{c \in [1..n -> UNION {RunRecordsAt(i) : i \in 1..n}] :
               \A i \in 1..n : c[i] \in RunRecordsAt(i)} : n \in 0..MaxContracts}

\* The files SimilarityExporter.export_all writes, by key of its result.
ExportFiles ==
    [fingerprints_csv |-> "bytecode_analysis.csv",
     similarities_csv |-> "contract_similarity.csv",
     similarities_jsonl |-> "contract_similarity.jsonl",
     similarities_sql |-> "contract_similarity.sql"]

\* The empty dict.
EmptyDict == <<>>

\* run_pipeline is about to be called, by main or by another caller.
RunInit ==
    /\ contracts \in RunContractLists
    /\ verbose \in BOOLEAN
    /\ threshold \in ScoreLevels
    /\ max_matches \in 1..MaxMatches
    /\ run_pc = "start"
    /\ outputs = Unset
    /\ scoring_calls = 0
    /\ exported = {}
    /\ exit_status = None
    /\ batch_pc = "idle"
    /\ cursor = 0
    /\ fingerprints = <<>>
    /\ record_errors = <<>>
    /\ stdout = <<>>
    /\ score_fingerprints = <<>>
    /\ pair_scores = <<>>
    /\ score_pc = "idle"
    /\ pair_i = 0
    /\ pair_j = 0
    /\ retained = <<>>
    /\ evaluated = <<>>
    /\ discarded = {}
    /\ similarities = Unset
    /\ ParseIdle
    /\ PairIdle
    /\ FingerprintIdle
    /\ ToolIdle

\* Step 1: fingerprints = process_contracts(contracts, verbose)
RunStart ==
    /\ run_pc = "start"
    /\ run_pc' = "fingerprinting"
    /\ batch_pc' = "start"
    /\ UNCHANGED <<contracts, verbose, cursor, fingerprints, record_errors, stdout>>
    /\ UNCHANGED <<outputs, scoring_calls, exported, exit_status>>
    /\ UNCHANGED <<parseVars, pairVars, fpVars, scoreVars, toolVars>>

\* An exception raised in process_contracts leaves run_pipeline and main.
RunRaised ==
    /\ run_pc = "fingerprinting"
    /\ batch_pc = "raised"
    /\ run_pc' = "raised"
    /\ UNCHANGED <<outputs, scoring_calls, exported, exit_status>>
    /\ UNCHANGED <<parseVars, pairVars, batchVars, fpVars, scoreVars, toolVars>>

\* The "Fingerprints generated" line, printed when verbose.
GeneratedLine ==
    IF verbose
    THEN <<"\nFingerprints generated: " \o ToString(Len(fingerprints))>>
    ELSE <<>>

\* if len(fingerprints) < 2
TooFewFingerprints(count) == count < 2

\* print("ERROR: Need at least 2 contracts ..."); return {}
RunCorpusError ==
    /\ run_pc = "fingerprinting"
    /\ batch_pc = "returned"
    /\ TooFewFingerprints(Len(fingerprints))
    /\ stdout' = stdout \o GeneratedLine
                    \o <<"ERROR: Need at least 2 contracts for similarity analysis">>
    /\ outputs' = EmptyDict
    /\ run_pc' = "returned"
    /\ UNCHANGED <<contracts, verbose, batch_pc, cursor, fingerprints, record_errors>>
    /\ UNCHANGED <<scoring_calls, exported, exit_status>>
    /\ UNCHANGED <<parseVars, pairVars, fpVars, scoreVars, toolVars>>

\* Step 2: similarities = compute_all_similarities(fingerprints, threshold=...,
\* max_matches_per_contract=...)
RunScore ==
    /\ run_pc = "fingerprinting"
    /\ batch_pc = "returned"
    /\ ~TooFewFingerprints(Len(fingerprints))
    /\ stdout' = stdout \o GeneratedLine
    /\ scoring_calls' = scoring_calls + 1
    /\ score_fingerprints' = [i \in 1..Len(fingerprints) |-> fingerprints[i].address]
    /\ score_pc' = "start"
    /\ run_pc' = "scoring"
    /\ UNCHANGED <<contracts, verbose, batch_pc, cursor, fingerprints, record_errors>>
    /\ UNCHANGED <<outputs, exported, exit_status>>
    /\ UNCHANGED <<pair_scores, threshold, max_matches, pair_i, pair_j, retained,
                   evaluated, discarded, similarities>>
    /\ UNCHANGED <<parseVars, pairVars, fpVars, toolVars>>

\* Step 3: outputs = exporter.export_all(fingerprints, similarities); return outputs
RunExport ==
    /\ run_pc = "scoring"
    /\ score_pc = "returned"
    /\ exported' = exported \cup {ExportFiles[k] : k \in DOMAIN ExportFiles}
    /\ outputs' = ExportFiles
    /\ run_pc' = "returned"
    /\ UNCHANGED <<scoring_calls, exit_status>>
    /\ UNCHANGED <<parseVars, pairVars, batchVars, fpVars, scoreVars, toolVars>>

\* main: if not outputs: sys.exit(1)
MainExit ==
    /\ run_pc = "returned"
    /\ exit_status' = IF outputs = EmptyDict THEN Some(1) ELSE Some(0)
    /\ run_pc' = "exited"
    /\ UNCHANGED <<outputs, scoring_calls, exported>>
    /\ UNCHANGED <<parseVars, pairVars, batchVars, fpVars, scoreVars, toolVars>>

RunNext ==
    \/ RunStart
    \/ BatchStart
    \/ RecordKeyError
    \/ RecordEmpty
    \/ RecordException
    \/ RecordNoOpcodes
    \/ RecordFingerprinted
    \/ BatchReturn
    \/ RunRaised
    \/ RunCorpusError
    \/ RunScore
    \/ ScoreStart
    \/ EvaluatePair
    \/ ScoreReturn
    \/ RunExport
    \/ MainExit

RunSpec == RunInit /\ [][RunNext]_vars

\* The records of the corpus that can be fingerprinted.
C12_Fingerprintable ==
    {i \in 1..Len(contracts) : C10_Fingerprintable(contracts[i])}

\* run_pipeline is over: it returned or an exception left it.
C12_RunOver == run_pc \in {"returned", "raised", "exited"}

\* C12 (corpus error): with fewer than two fingerprintable records bulk
\* scoring is never invoked and no file is exported, at any point of the
\* run, and the run ends by returning the empty output mapping, which main
\* turns into exit status 1.
C12_NoPartialRun ==
    Cardinality(C12_Fingerprintable) < 2 =>
        /\ scoring_calls = 0
        /\ exported = {}
        /\ score_pc = "idle"
        /\ C12_RunOver => run_pc # "raised" /\ outputs = EmptyDict
        /\ run_pc = "exited" => exit_status = Some(1)

\* json.dumps(value): the encoded text, taken as a value that stands for
\* the dict it encodes.
JsonDumps(value) == <<"json", value>>

\* fingerprint_to_db_row(fp)
fingerprint_to_db_row(fp) ==
    [contract_address |-> fp.address,
     opcode_count |-> fp.opcode_count,
     unique_opcode_count |-> fp.unique_opcodes,
     jump_count |-> fp.jump_count,
     jumpdest_count |-> fp.jumpdest_count,
     branch_density |-> fp.branch_density,
     storage_ops_count |-> fp.sstore_count + fp.sload_count,
     call_ops_count |-> fp.call_count,
     heuristic_has_loops |-> fp.estimated_loops > 0,
     heuristic_loop_count |-> fp.estimated_loops,
     opcode_trigram_hash |-> fp.trigram_hash,
     opcode_quadgram_hash |-> fp.quadgram_hash,
     opcode_pentagram_hash |-> fp.pentagram_hash,
     control_flow_signature |-> fp.control_flow_signature,
     shape_signature |-> fp.shape_signature,
     opcode_trigrams |-> JsonDumps(fp.trigrams)]

(***************************************************************************)
(* fingerprint.py: generate_fingerprint, one step at a time                *)
(***************************************************************************)

\* Longest stream enumerated exhaustively over StreamAlphabet.
MaxStreamLen == 6

StreamAlphabet == {"PUSH", "JUMPDEST", "JUMPI"}

ShortStreams == SeqsUpTo(StreamAlphabet, MaxStreamLen)

\* Streams holding the other mnemonics the counters look for.
MixedStreams ==
    {<<"JUMP", "SSTORE", "SLOAD", "CALL", "DELEGATECALL", "SELFDESTRUCT">>,
     <<"PUSH", "PUSH", "MSTORE", "CALLVALUE", "ISZERO">>,
     <<"CREATE", "CREATE2", "STATICCALL", "CALLCODE", "UNKNOWN_0C", "JUMP">>,
     <<"CALL", "CALL", "SSTORE", "SSTORE", "SLOAD", "JUMPI", "JUMP">>,
     <<"DELEGATECALL">>, <<"CALL">>, <<"SSTORE">>, <<"SLOAD">>,
     <<"SELFDESTRUCT">>, <<"SELFDESTRUCT", "JUMPDEST">>}

\* A jump target, a run of instructions, a conditional jump: runs on either
\* side of the lookahead, alone, after an earlier JUMPI, and followed by a
\* second JUMPI or another target.
LoopRuns == {0, 48, 49, 50, 51}

LoopStreams ==
    {before \o <<"JUMPDEST">> \o Repeat("PUSH", run) \o <<"JUMPI">> \o after :
        before \in {<<>>, <<"JUMPI">>},
        run \in LoopRuns,
        after \in {<<>>, <<"JUMPI">>, <<"PUSH", "JUMPI">>, <<"JUMPDEST", "JUMPI">>}}
    \cup
    {<<"JUMPDEST">> \o Repeat("PUSH", first) \o <<"JUMPDEST">>
        \o Repeat("PUSH", second) \o <<"JUMPI">> :
        first \in {30, 50}, second \in {0, 49, 50}}

\* Streams whose counters reach the width of a signature field.
WideStreams == {Repeat("CALL", 999), Repeat("CALL", 1000)}

\* sample_bytecode of the quick test of fingerprint.py, as bytes.
FingerprintSample ==
    <<96, 128, 96, 64, 82, 52, 128, 21, 96, 15, 87, 96, 0, 128, 253, 91, 80,
      96, 53, 128, 96, 29, 96, 0, 57, 96, 0, 243, 254, 96, 128, 96, 64, 82,
      96, 0, 128, 253, 254>>

\* What get_opcode_sequence returns for "0x" and for the sample bytecodes.
DecodedStreams ==
    {get_opcode_sequence(<<"0", "x">>),
     get_opcode_sequence(<<"0", "x">> \o ToHex(SampleInit)),
     get_opcode_sequence(<<"0", "x">> \o ToHex(FingerprintSample))}

Streams == ShortStreams \cup MixedStreams \cup LoopStreams \cup WideStreams
               \cup DecodedStreams

FingerprintInit ==
    /\ fp_address = AddressOf[1]
    /\ stream \in Streams
    /\ fp_pc = "start"
    /\ scan_index = 0
    /\ loop_count = 0
    /\ in_potential_loop = FALSE
    /\ distance_from_jumpdest = 0
    /\ fingerprint = Unset
    /\ row = Unset
    /\ ParseIdle
    /\ PairIdle
    /\ BatchIdle
    /\ ScoreIdle
    /\ RunIdle
    /\ ToolIdle

\* if not opcodes: return ContractFingerprint(... all zero ...)
FingerprintEmpty ==
    /\ fp_pc = "start"
    /\ stream = <<>>
    /\ fingerprint' = EmptyFingerprint(fp_address)
    /\ fp_pc' = "returned"
    /\ UNCHANGED <<fp_address, stream, scan_index, loop_count, in_potential_loop,
                   distance_from_jumpdest, row>>
    /\ UNCHANGED <<parseVars, pairVars, batchVars, scoreVars, runVars, toolVars>>

\* The n-grams and the counters are computed; detect_loops is entered.
FingerprintStart ==
    /\ fp_pc = "start"
    /\ stream # <<>>
    /\ loop_count' = 0
    /\ in_potential_loop' = FALSE
    /\ distance_from_jumpdest' = 0
    /\ scan_index' = 1
    /\ fp_pc' = "scan"
    /\ UNCHANGED <<fp_address, stream, fingerprint, row>>
    /\ UNCHANGED <<parseVars, pairVars, batchVars, scoreVars, runVars, toolVars>>

\* The locals of detect_loops, as a record.
ScanLocals ==
    [loop_count |-> loop_count, in_potential_loop |-> in_potential_loop,
     distance_from_jumpdest |-> distance_from_jumpdest]

\* for op in opcodes: one iteration.
ScanStep ==
    /\ fp_pc = "scan"
    /\ scan_index <= Len(stream)
    /\ loop_count' = DetectLoopsStep(ScanLocals, stream[scan_index]).loop_count
    /\ in_potential_loop' =
          DetectLoopsStep(ScanLocals, stream[scan_index]).in_potential_loop
    /\ distance_from_jumpdest' =
          DetectLoopsStep(ScanLocals, stream[scan_index]).distance_from_jumpdest
    /\ scan_index' = scan_index + 1
    /\ UNCHANGED <<fp_address, stream, fp_pc, fingerprint, row>>
    /\ UNCHANGED <<parseVars, pairVars, batchVars, scoreVars, runVars, toolVars>>

\* detect_loops returns loop_count; the signatures are computed and the
\* fingerprint is returned.
FingerprintReturn ==
    /\ fp_pc = "scan"
    /\ scan_index > Len(stream)
    /\ fingerprint' = ContractFingerprint(fp_address, stream, loop_count)
    /\ fp_pc' = "returned"
    /\ UNCHANGED <<fp_address, stream, scan_index, loop_count, in_potential_loop,
                   distance_from_jumpdest, row>>
    /\ UNCHANGED <<parseVars, pairVars, batchVars, scoreVars, runVars, toolVars>>

\* export_fingerprints_csv: row = fingerprint_to_db_row(fp); writer.writerow(row)
WriteRow ==
    /\ fp_pc = "returned"
    /\ row' = fingerprint_to_db_row(fingerprint)
    /\ fp_pc' = "written"
    /\ UNCHANGED <<fp_address, stream, scan_index, loop_count, in_potential_loop,
                   distance_from_jumpdest, fingerprint>>
    /\ UNCHANGED <<parseVars, pairVars, batchVars, scoreVars, runVars, toolVars>>

FingerprintNext ==
    \/ FingerprintEmpty
    \/ FingerprintStart
    \/ ScanStep
    \/ FingerprintReturn
    \/ WriteRow

FingerprintSpec == FingerprintInit /\ [][FingerprintNext]_vars

\* The fingerprint has been returned.
FingerprintReturned == fp_pc = "returned"

\* The n-gram dicts of the stream: the two the fingerprint stores, and the
\* one that generate_fingerprint only hashes.
C17_Ngrams(n) ==
    IF n = 3 THEN fingerprint.trigrams
    ELSE IF n = 4 THEN fingerprint.quadgrams
    ELSE fingerprint.pentagram_hash[2]

\* The contiguous window of n mnemonics at Python index i, as a subsequence.
C17_Window(i, n) == SubSeq(stream, i + 1, i + n)

C17_Windows(n) == {C17_Window(i, n) : i \in 0..(Len(stream) - n)}

RECURSIVE C17_Total(_, _)
C17_Total(counts, keys) ==
    IF keys = {} THEN 0
    ELSE LET key == CHOOSE k \in keys : TRUE
         IN  counts[key] + C17_Total(counts, keys \ {key})

\* C17: for n in {3, 4, 5}, a stream shorter than n gives the empty dict;
\* otherwise every distinct window has its own key, the count under that key
\* is the number of start positions holding that window, and the counts sum
\* to len(stream) - n + 1.
C17_NgramCounts ==
    FingerprintReturned =>
        \A n \in {3, 4, 5} :
            IF Len(stream) < n
            THEN /\ generate_ngrams(stream, n) = <<>>
                 /\ n < 5 => C17_Ngrams(n) = <<>>
                 /\ n = 5 => fingerprint.pentagram_hash = <<"empty">>
            ELSE /\ C17_Ngrams(n) = generate_ngrams(stream, n)
                 /\ DOMAIN C17_Ngrams(n) =
                       {JoinFrom(w, 1, n) : w \in C17_Windows(n)}
                 /\ Cardinality(DOMAIN C17_Ngrams(n)) = Cardinality(C17_Windows(n))
                 /\ \A w \in C17_Windows(n) :
                       C17_Ngrams(n)[JoinFrom(w, 1, n)] =
                          Cardinality({i \in 0..(Len(stream) - n) :
                                          C17_Window(i, n) = w})
                 /\ C17_Total(C17_Ngrams(n), DOMAIN C17_Ngrams(n)) =
                       Len(stream) - n + 1

\* A returned fingerprint whose stream repeats a trigram and is too short
\* for a pentagram.
C17_Witness ==
    /\ FingerprintReturned
    /\ Len(stream) = 4
    /\ \E key \in DOMAIN fingerprint.trigrams : fingerprint.trigrams[key] = 2
    /\ fingerprint.pentagram_hash = <<"empty">>

\* The JUMPI at position j is the first one after the JUMPDEST at position
\* i: nothing between them is a JUMPDEST or a JUMPI.
C18_FirstJumpiAfter(i, j) ==
    /\ stream[j] = "JUMPI"
    /\ \A k \in (i + 1)..(j - 1) : stream[k] \notin {"JUMPDEST", "JUMPI"}

\* The JUMPDEST markers followed by a JUMPI with fewer than 50 intervening
\* instructions before the next JUMPDEST; only the first JUMPI counts.
C18_LoopHeads ==
    {i \in 1..Len(stream) :
        /\ stream[i] = "JUMPDEST"
        /\ \E j \in (i + 1)..(IF i + 50 < Len(stream) THEN i + 50 ELSE Len(stream)) :
              C18_FirstJumpiAfter(i, j)}

\* C18: detect_loops returns the number of JUMPDEST markers followed by a
\* JUMPI with fewer than 50 intervening instructions before the next
\* JUMPDEST; a JUMPI after 50 or more instructions, or a second JUMPI after
\* the same JUMPDEST, is not counted.
C18_LoopCount ==
    FingerprintReturned =>
        fingerprint.estimated_loops = Cardinality(C18_LoopHeads)

\* A returned stream with a JUMPI counted after exactly 49 instructions and
\* a second JUMPI after it that is not counted.
C18_Witness ==
    /\ FingerprintReturned
    /\ stream = <<"JUMPDEST">> \o Repeat("PUSH", 49) \o <<"JUMPI", "JUMPI">>
    /\ fingerprint.estimated_loops = 1

\* A returned stream whose only JUMPI comes after exactly 50 instructions.
C18_TooFar ==
    /\ FingerprintReturned
    /\ stream = <<"JUMPDEST">> \o Repeat("PUSH", 50) \o <<"JUMPI">>
    /\ fingerprint.estimated_loops = 0

\* C19: for every instruction stream the control-flow signature has 21
\* characters (J4 D4 B4 C3 S1) and the shape signature has 16 characters
\* (O6 U3 R4), whatever the counter values.
C19_FixedWidth ==
    FingerprintReturned =>
        /\ Len(fingerprint.control_flow_signature) = 21
        /\ Len(fingerprint.shape_signature) = 16

\* The signature of a stream of 1000 CALLs: the C field takes four
\* characters.
C19_Overflow ==
    /\ FingerprintReturned
    /\ stream = Repeat("CALL", 1000)
    /\ fingerprint.control_flow_signature =
          <<"J","0","0","0","0","D","0","0","0","0","B","0","0","0","0",
            "C","1","0","0","0","S","0">>
    /\ fingerprint.shape_signature =
          <<"O","0","0","1","0","0","0","U","0","0","1","R","0","0","0","1">>

\* C20: generate_fingerprint on an empty stream returns a fingerprint that
\* is not None, with every counter 0, both ratios 0.0, both booleans false,
\* the n-gram dicts empty, and the two signatures equal to what
\* compute_control_flow_signature and compute_shape_signature give for
\* all-zero counters; the stream decoded from "0x" is such a stream.
C20_ZeroFingerprint ==
    /\ get_opcode_sequence(<<"0", "x">>) = <<>>
    /\ (FingerprintReturned /\ stream = get_opcode_sequence(<<"0", "x">>)) =>
          /\ fingerprint # None
          /\ fingerprint.address = fp_address
          /\ fingerprint.jump_count = 0
          /\ fingerprint.jumpdest_count = 0
          /\ fingerprint.sstore_count = 0
          /\ fingerprint.sload_count = 0
          /\ fingerprint.call_count = 0
          /\ fingerprint.opcode_count = 0
          /\ fingerprint.unique_opcodes = 0
          /\ fingerprint.estimated_loops = 0
          /\ fingerprint.branch_density = ZeroFloat
          /\ fingerprint.unique_ratio = ZeroFloat
          /\ ~fingerprint.has_selfdestruct
          /\ ~fingerprint.has_delegatecall
          /\ fingerprint.trigrams = <<>>
          /\ fingerprint.quadgrams = <<>>
          /\ fingerprint.trigram_hash = hash_ngrams(generate_ngrams(stream, 3))
          /\ fingerprint.quadgram_hash = hash_ngrams(generate_ngrams(stream, 4))
          /\ fingerprint.pentagram_hash = hash_ngrams(generate_ngrams(stream, 5))
          /\ fingerprint.control_flow_signature =
                compute_control_flow_signature(0, 0, ZeroFloat, 0, FALSE)
          /\ fingerprint.shape_signature =
                compute_shape_signature(0, 0, ZeroFloat)
          /\ Len(fingerprint.control_flow_signature) = 21
          /\ Len(fingerprint.shape_signature) = 16

\* The fingerprint of the empty stream has been returned.
C20_Witness ==
    /\ FingerprintReturned
    /\ stream = <<>>
    /\ fingerprint.opcode_count = 0

\* The number of instructions of the stream whose mnemonic is in names.
C21_Number(names) == Len(SelectSeq(stream, LAMBDA op : op \in names))

\* C21: for every non-empty stream, jump_count is the number of JUMP plus
\* JUMPI, jumpdest_count the number of JUMPDEST, branch_density the number
\* of JUMPI over the number of instructions, sload_count and sstore_count the
\* numbers of SLOAD and SSTORE, call_count the number of instructions of the
\* call family, and has_selfdestruct / has_delegatecall are true exactly when
\* SELFDESTRUCT / DELEGATECALL occurs in the stream.
C21_Counters ==
    (FingerprintReturned /\ stream # <<>>) =>
        /\ fingerprint.jump_count = C21_Number({"JUMP"}) + C21_Number({"JUMPI"})
        /\ fingerprint.jumpdest_count = C21_Number({"JUMPDEST"})
        /\ fingerprint.branch_density.den > 0
        /\ fingerprint.branch_density.num * Len(stream) =
              C21_Number({"JUMPI"}) * fingerprint.branch_density.den
        /\ fingerprint.sload_count = C21_Number({"SLOAD"})
        /\ fingerprint.sstore_count = C21_Number({"SSTORE"})
        /\ fingerprint.call_count =
              C21_Number({"CALL", "CALLCODE", "DELEGATECALL", "STATICCALL",
                          "CREATE", "CREATE2"})
        /\ fingerprint.has_selfdestruct <=> C21_Number({"SELFDESTRUCT"}) > 0
        /\ fingerprint.has_delegatecall <=> C21_Number({"DELEGATECALL"}) > 0

\* A returned fingerprint with two calls, two jumps of which one is
\* conditional, and storage accesses.
C21_Witness ==
    /\ FingerprintReturned
    /\ fingerprint.call_count = 2
    /\ fingerprint.jump_count = 2
    /\ fingerprint.branch_density = [num |-> 1, den |-> 7]
    /\ fingerprint.sstore_count = 2
    /\ fingerprint.sload_count = 1
    /\ ~fingerprint.has_delegatecall

\* The row of the fingerprint has been written.
RowWritten == fp_pc = "written"

\* The streams whose rows are compared with the row written.
C22_Others == {s \in ShortStreams : Len(s) <= 2} \cup MixedStreams

\* The fields of the data model that are not n-gram count maps.
C22_SameFields(first, second) ==
    /\ first.address = second.address
    /\ first.trigram_hash = second.trigram_hash
    /\ first.quadgram_hash = second.quadgram_hash
    /\ first.pentagram_hash = second.pentagram_hash
    /\ first.jump_count = second.jump_count
    /\ first.jumpdest_count = second.jumpdest_count
    /\ first.branch_density = second.branch_density
    /\ first.sstore_count = second.sstore_count
    /\ first.sload_count = second.sload_count
    /\ first.call_count = second.call_count
    /\ first.has_selfdestruct = second.has_selfdestruct
    /\ first.has_delegatecall = second.has_delegatecall
    /\ first.opcode_count = second.opcode_count
    /\ first.unique_opcodes = second.unique_opcodes
    /\ first.unique_ratio = second.unique_ratio
    /\ first.estimated_loops = second.estimated_loops
    /\ first.control_flow_signature = second.control_flow_signature
    /\ first.shape_signature = second.shape_signature

\* C22: the flat record has one independent column for every field of the
\* fingerprint other than the n-gram count maps, so the row written
\* determines each of those fields: a fingerprint with the same row has the
\* same fields.
C22_IndependentColumns ==
    RowWritten =>
        \A other \in C22_Others :
            row = fingerprint_to_db_row(generate_fingerprint(fp_address, other))
                => C22_SameFields(generate_fingerprint(fp_address, other), fingerprint)

\* The row written for the stream SSTORE is also the row of the stream SLOAD.
C22_MergedStorage ==
    /\ RowWritten
    /\ stream = <<"SSTORE">>
    /\ row = fingerprint_to_db_row(generate_fingerprint(fp_address, <<"SLOAD">>))
    /\ row.storage_ops_count = 1

(***************************************************************************)
(* convert_data_format.py                                                  *)
(***************************************************************************)

UpperLetters == <<"A","B","C","D","E","F","G","H","I","J","K","L","M",
                  "N","O","P","Q","R","S","T","U","V","W","X","Y","Z">>

LowerLetters == <<"a","b","c","d","e","f","g","h","i","j","k","l","m",
                  "n","o","p","q","r","s","t","u","v","w","x","y","z">>

\* str.lower() on ASCII text.
Lower(chars) ==
    [i \in 1..Len(chars) |->
        IF \E k \in 1..26 : UpperLetters[k] = chars[i]
        THEN LowerLetters[CHOOSE k \in 1..26 : UpperLetters[k] = chars[i]]
        ELSE chars[i]]

\* The hex length below which bytecode counts as short.
MinHexChars == 20

\* is_valid_bytecode(bytecode, include_short_for_history), for a str.
is_valid_bytecode(code_hex, include_short_for_history) ==
    LET hex_str_ == IF StartsWith(code_hex, <<"0", "x">>)
                    THEN DropFirst(code_hex, 2) ELSE code_hex
    IN  IF code_hex = <<>> \/ code_hex = <<"0", "x">> THEN FALSE
        ELSE IF Len(hex_str_) < MinHexChars
        THEN IF include_short_for_history THEN FromHex(hex_str_).ok ELSE FALSE
        ELSE FromHex(hex_str_).ok

\* a.get(k1) or a.get(k2) or a.get(k3): the first truthy value, else the
\* last one looked up.
RECURSIVE FirstTruthy(_, _)
FirstTruthy(d, keys) ==
    IF Len(keys) = 1 \/ Truthy(DictGet(d, Head(keys), PyNone))
    THEN DictGet(d, Head(keys), PyNone)
    ELSE FirstTruthy(d, Tail(keys))

\* if contract.get("contract_name"): output["contract_name"] = ...
WithContractName(output, contract_) ==
    IF Truthy(DictGet(contract_, "contract_name", PyNone))
    THEN [k \in DOMAIN output \cup {"contract_name"} |->
             IF k = "contract_name" THEN contract_.contract_name ELSE output[k]]
    ELSE output

\* convert_contract(contract, include_short_bytecode): the converted dict
\* or None.  The input records of the model carry an address, a bytecode and
\* a contract name; they have no timestamp, decompiled code or token fields.
convert_contract(contract_, include_short) ==
    LET address == FirstTruthy(contract_, <<"address", "Contract Address", "contract_address">>)
        code_ == FirstTruthy(contract_, <<"bytecode", "runtime_bytecode", "Runtime Bytecode">>)
    IN  IF ~Truthy(address) THEN PyNone
        ELSE IF ~Truthy(code_) THEN PyNone
        ELSE IF ~is_valid_bytecode(code_.value, include_short) THEN PyNone
        ELSE WithContractName(
                 [address |-> address, runtime_bytecode |-> code_,
                  decompilation_success |-> FALSE, decompiled_code |-> PyNone],
                 contract_)

\* A JSON document: a list, or a dict with a "contracts" key, or anything
\* else.
ListFile(items) == [kind |-> "list", items |-> items]
DictFile(items) == [kind |-> "dict", items |-> items]
OtherFile == [kind |-> "other", items |-> <<>>]

\* _load_existing_contracts: the set of lower-cased addresses.
\* Mutant: the addresses are taken as written.
ExistingAddrs_raw(existing) ==
    {existing[i].address.value :
        i \in {j \in 1..Len(existing) : Truthy(DictGet(existing[j], "address", PyNone))}}

ExistingAddrs(existing) ==
    {Lower(existing[i].address.value) :
        i \in {j \in 1..Len(existing) : Truthy(DictGet(existing[j], "address", PyNone))}}

\* Mutant: the existing entries are left out of the output.
OutList_converted(merge, existing, new) == new

\* out_list = existing_list + converted if merge_with else converted
OutList(merge, existing, new) == IF merge # None THEN existing \o new ELSE new

\* Longest list of contracts in the input file.
MaxInput == 3

Hex20 == Repeat("6", 20)

AddrUpper == PyStr(<<"0", "x", "A", "B">>)
AddrLower == PyStr(<<"0", "x", "a", "b">>)
AddrOther == PyStr(<<"0", "x", "c", "d">>)

\* The contracts of the input file: valid ones whose addresses differ only
\* in case, a short placeholder, invalid hex, a missing address, an address
\* that is a number.
InputContracts ==
    {[address |-> AddrUpper, bytecode |-> PyStr(<<"0", "x">> \o Hex20),
      contract_name |-> PyStr(<<"n", "e", "w">>)],
     [address |-> AddrLower, runtime_bytecode |-> PyStr(Hex20)],
     [contract_address |-> AddrOther,
      bytecode |-> PyStr(<<"0", "x", "d", "e", "a", "d", "b", "e", "e", "f">>)],
     [address |-> AddrOther, bytecode |-> PyStr(<<"0", "x">> \o Hex20 \o <<"z", "z">>)],
     [address |-> PyStr(<<>>), bytecode |-> PyStr(<<"0", "x">> \o Hex20)],
     [address |-> PyInt(5), bytecode |-> PyStr(<<"0", "x">> \o Hex20)]}

InputLists == SeqsUpTo(InputContracts, MaxInput)

InputFiles ==
    {ListFile(l) : l \in InputLists}
    \cup {DictFile(l) : l \in {l \in InputLists : Len(l) = 1}}
    \cup {OtherFile}

\* Entries of an existing output file.
ExistingUpper ==
    [address |-> AddrUpper, runtime_bytecode |-> PyStr(<<"0", "x">> \o Hex20),
     decompilation_success |-> FALSE, decompiled_code |-> PyNone,
     contract_name |-> PyStr(<<"o", "l", "d">>)]

ExistingOther ==
    [address |-> AddrOther, runtime_bytecode |-> PyStr(<<"0", "x">> \o Hex20),
     decompilation_success |-> FALSE, decompiled_code |-> PyNone]

ExistingNoAddress ==
    [runtime_bytecode |-> PyStr(<<"0", "x">> \o Hex20),
     decompilation_success |-> FALSE, decompiled_code |-> PyNone]

MergeFiles ==
    {Missing, OtherFile, ListFile(<<>>), ListFile(<<ExistingUpper>>),
     DictFile(<<ExistingOther, ExistingUpper>>),
     ListFile(<<ExistingNoAddress, ExistingOther>>)}

ConvertInit ==
    /\ input_data \in InputFiles
    /\ merge_with \in {None, Some("merge.json")}
    /\ merge_file \in MergeFiles
    /\ merge_with = None => merge_file = Missing
    /\ include_short_bytecode \in BOOLEAN
    /\ output_file = Missing
    /\ conv_pc = "start"
    /\ conv_contracts = <<>>
    /\ conv_i = 0
    /\ existing_list = <<>>
    /\ existing_addrs = {}
    /\ converted = <<>>
    /\ invalid_count = 0
    /\ added_count = 0
    /\ stats = Unset
    /\ skipped_count = 0
    /\ run_number = 1
    /\ first_output = Missing
    /\ ParseIdle
    /\ PairIdle
    /\ BatchIdle
    /\ FingerprintIdle
    /\ ScoreIdle
    /\ RunIdle
    /\ TableIdle
    /\ DetectIdle

\* The merge file is there and is to be loaded.
LoadsExisting == merge_with # None /\ merge_file # Missing

\* _load_existing_contracts or the format check of the input raises
\* ValueError.
ConvertLoadRaise ==
    /\ conv_pc = "start"
    /\ IF LoadsExisting /\ merge_file.kind = "other" THEN TRUE
       ELSE input_data.kind = "other"
    /\ conv_pc' = "raised"
    /\ UNCHANGED <<input_data, merge_with, merge_file, include_short_bytecode,
                   output_file, conv_contracts, conv_i, existing_list,
                   existing_addrs, converted, invalid_count, added_count, stats,
                   skipped_count, run_number, first_output>>
    /\ UNCHANGED <<parseVars, pairVars, batchVars, fpVars, scoreVars, runVars,
                   tableVars, detectVars>>

\* The existing contracts and the input are loaded; the loop is entered.
ConvertLoad ==
    /\ conv_pc = "start"
    /\ LoadsExisting => merge_file.kind # "other"
    /\ input_data.kind # "other"
    /\ existing_list' = IF LoadsExisting THEN merge_file.items ELSE <<>>
    /\ existing_addrs' = IF LoadsExisting THEN ExistingAddrs(merge_file.items) ELSE {}
    /\ conv_contracts' = input_data.items
    /\ converted' = <<>>
    /\ invalid_count' = 0
    /\ added_count' = 0
    /\ conv_i' = 1
    /\ conv_pc' = "loop"
    /\ UNCHANGED <<input_data, merge_with, merge_file, include_short_bytecode,
                   output_file, stats, skipped_count, run_number, first_output>>
    /\ UNCHANGED <<parseVars, pairVars, batchVars, fpVars, scoreVars, runVars,
                   tableVars, detectVars>>

ConvertInLoop == conv_pc = "loop" /\ conv_i <= Len(conv_contracts)

converted_contract == convert_contract(conv_contracts[conv_i], include_short_bytecode)

\* else: invalid_count += 1
ConvertInvalid ==
    /\ ConvertInLoop
    /\ converted_contract = PyNone
    /\ invalid_count' = invalid_count + 1
    /\ conv_i' = conv_i + 1
    /\ UNCHANGED <<input_data, merge_with, merge_file, include_short_bytecode,
                   output_file, conv_pc, conv_contracts, existing_list,
                   existing_addrs, converted, added_count, stats,
                   skipped_count, run_number, first_output>>
    /\ UNCHANGED <<parseVars, pairVars, batchVars, fpVars, scoreVars, runVars,
                   tableVars, detectVars>>

\* converted_contract.get("address", "").lower() on an address that is not
\* a str: AttributeError.
ConvertLowerRaise ==
    /\ ConvertInLoop
    /\ converted_contract # PyNone
    /\ converted_contract.address.type # "str"
    /\ conv_pc' = "raised"
    /\ UNCHANGED <<input_data, merge_with, merge_file, include_short_bytecode,
                   output_file, conv_contracts, conv_i, existing_list,
                   existing_addrs, converted, invalid_count, added_count, stats,
                   skipped_count, run_number, first_output>>
    /\ UNCHANGED <<parseVars, pairVars, batchVars, fpVars, scoreVars, runVars,
                   tableVars, detectVars>>

\* The converted contract has a str address.
ConvertHasAddr ==
    /\ ConvertInLoop
    /\ converted_contract # PyNone
    /\ converted_contract.address.type = "str"

addr == Lower(converted_contract.address.value)

\* if merge_with and addr in existing_addrs: pass
ConvertSkip ==
    /\ ConvertHasAddr
    /\ merge_with # None
    /\ addr \in existing_addrs
    /\ skipped_count' = skipped_count + 1
    /\ conv_i' = conv_i + 1
    /\ UNCHANGED <<input_data, merge_with, merge_file, include_short_bytecode,
                   output_file, conv_pc, conv_contracts, existing_list,
                   existing_addrs, converted, invalid_count, added_count, stats,
                   run_number, first_output>>
    /\ UNCHANGED <<parseVars, pairVars, batchVars, fpVars, scoreVars, runVars,
                   tableVars, detectVars>>

\* else: converted.append(...); in merge mode the address is remembered
ConvertAppend ==
    /\ ConvertHasAddr
    /\ IF merge_with # None THEN addr \notin existing_addrs ELSE TRUE
    /\ converted' = Append(converted, converted_contract)
    /\ existing_addrs' = IF merge_with # None THEN existing_addrs \cup {addr}
                         ELSE existing_addrs
    /\ added_count' = IF merge_with # None THEN added_count + 1 ELSE added_count
    /\ conv_i' = conv_i + 1
    /\ UNCHANGED <<input_data, merge_with, merge_file, include_short_bytecode,
                   output_file, conv_pc, conv_contracts, existing_list,
                   invalid_count, stats, skipped_count, run_number, first_output>>
    /\ UNCHANGED <<parseVars, pairVars, batchVars, fpVars, scoreVars, runVars,
                   tableVars, detectVars>>

\* json.dump(out_list, f); the stats are returned.  What json.dump writes
\* is what json.load reads back: the values are strs, bools and None under
\* str keys.
ConvertWrite ==
    /\ conv_pc = "loop"
    /\ conv_i > Len(conv_contracts)
    /\ output_file' = ListFile(OutList(merge_with, existing_list, converted))
    /\ stats' = [total |-> Len(conv_contracts),
                 valid |-> Len(converted)
                             + (IF merge_with # None THEN Len(existing_list) ELSE 0),
                 invalid |-> invalid_count,
                 existing |-> Len(existing_list),
                 added |-> IF merge_with # None THEN added_count ELSE Len(converted)]
    /\ conv_pc' = "written"
    /\ UNCHANGED <<input_data, merge_with, merge_file, include_short_bytecode,
                   conv_contracts, conv_i, existing_list, existing_addrs,
                   converted, invalid_count, added_count, skipped_count,
                   run_number, first_output>>
    /\ UNCHANGED <<parseVars, pairVars, batchVars, fpVars, scoreVars, runVars,
                   tableVars, detectVars>>

\* convert_file is run again on the same input with the same flags, with
\* merge_with naming the file the first run wrote.
ConvertAgain ==
    /\ conv_pc = "written"
    /\ run_number = 1
    /\ run_number' = 2
    /\ first_output' = output_file
    /\ merge_with' = Some("output.json")
    /\ merge_file' = output_file
    /\ conv_pc' = "start"
    /\ conv_contracts' = <<>>
    /\ conv_i' = 0
    /\ existing_list' = <<>>
    /\ existing_addrs' = {}
    /\ converted' = <<>>
    /\ invalid_count' = 0
    /\ added_count' = 0
    /\ skipped_count' = 0
    /\ stats' = Unset
    /\ UNCHANGED <<input_data, include_short_bytecode, output_file>>
    /\ UNCHANGED <<parseVars, pairVars, batchVars, fpVars, scoreVars, runVars,
                   tableVars, detectVars>>

ConvertNext ==
    \/ ConvertLoadRaise
    \/ ConvertLoad
    \/ ConvertInvalid
    \/ ConvertLowerRaise
    \/ ConvertSkip
    \/ ConvertAppend
    \/ ConvertWrite
    \/ ConvertAgain

ConvertSpec == ConvertInit /\ [][ConvertNext]_vars

\* convert_file has written its output in merge mode.
MergeWritten == conv_pc = "written" /\ merge_with # None

\* The entries of the file merged with (none when there is no such file).
C23_Existing == merge_file.items

C23_Converted(i) == convert_contract(input_data.items[i], include_short_bytecode)

C23_Address(i) == Lower(C23_Converted(i).address.value)

C23_ExistingAddresses ==
    {Lower(C23_Existing[k].address.value) :
        k \in {k \in 1..Len(C23_Existing) : "address" \in DOMAIN C23_Existing[k]}}

\* The input positions whose converted contract is new: its lower-cased
\* address is not in the existing list and not at an earlier valid position.
C23_NewPositions ==
    SelectSeq([i \in 1..Len(input_data.items) |-> i],
              LAMBDA i : /\ C23_Converted(i) # PyNone
                         /\ C23_Address(i) \notin C23_ExistingAddresses
                         /\ \A j \in 1..(i - 1) :
                               C23_Converted(j) # PyNone
                                  => C23_Address(j) # C23_Address(i))

\* C23: in merge mode the written list is the existing list, unchanged, as
\* a prefix, followed only by the converted input contracts whose
\* lower-cased address occurs neither in the existing list nor earlier among
\* the newly added contracts.
C23_MergeKeepsExisting ==
    MergeWritten =>
        /\ output_file.kind = "list"
        /\ Len(output_file.items) = Len(C23_Existing) + Len(C23_NewPositions)
        /\ SubSeq(output_file.items, 1, Len(C23_Existing)) = C23_Existing
        /\ \A k \in 1..Len(C23_NewPositions) :
              output_file.items[Len(C23_Existing) + k] =
                 C23_Converted(C23_NewPositions[k])

\* A first run in merge mode that kept an existing entry, skipped an input
\* contract whose address differs from it only in case, and added another.
C23_Witness ==
    /\ MergeWritten
    /\ run_number = 1
    /\ C23_Existing = <<ExistingUpper>>
    /\ skipped_count >= 1
    /\ stats.added = 1
    /\ \E i \in 1..Len(input_data.items) :
          /\ C23_Converted(i) # PyNone
          /\ C23_Converted(i).address = AddrLower

(***************************************************************************)
(* Further properties of parse_bytecode and of the opcode table            *)
(***************************************************************************)

\* C24: parse_bytecode returns an empty instruction stream if and only if
\* the input is empty after the prefix is stripped or is rejected by
\* bytes.fromhex; every other input yields at least one instruction, also
\* when metadata is detected.
C24_EmptyStreamIff ==
    pc = "done" =>
        (result.opcodes = <<>>
            <=> (C6_Stripped = <<>> \/ ~FromHex(C6_Stripped).ok))

\* The call parse_bytecode(" ") has returned: no instruction, no warning.
C24_Blank ==
    /\ pc = "done"
    /\ bytecode = <<" ">>
    /\ result.opcodes = <<>>
    /\ result.parse_errors = <<>>
    /\ result.original_size = 0

\* Every record of the list has an address.
C25_AllAddressed == \A i \in 1..Len(contracts) : "address" \in DOMAIN contracts[i]

\* The records the loop has gone through.
C25_Done == IF batch_pc \in {"loop", "returned"} THEN cursor - 1 ELSE 0

\* The positions, among those gone through, of the records whose bytecode
\* decodes to at least one instruction.
C25_FingerprintedPositions ==
    SelectSeq([i \in 1..C25_Done |-> i], LAMBDA i : C10_Fingerprintable(contracts[i]))

\* C25: when every record has an address, each record gone through is
\* either fingerprinted or recorded as an error, so that at the return
\* len(fingerprints) + len(errors) = len(contracts); the fingerprints keep
\* the input order of their records and each carries its record's address.
C25_Partition ==
    C25_AllAddressed =>
        /\ batch_pc # "raised"
        /\ Len(fingerprints) + Len(record_errors) = C25_Done
        /\ batch_pc = "returned" => C25_Done = Len(contracts)
        /\ Len(fingerprints) = Len(C25_FingerprintedPositions)
        /\ \A k \in 1..Len(fingerprints) :
              fingerprints[k].address = contracts[C25_FingerprintedPositions[k]].address

\* A returned batch of three addressed records: the first and the third
\* are fingerprinted, the second one is an error that is not the empty
\* bytecode.
C25_Witness ==
    /\ batch_pc = "returned"
    /\ C25_AllAddressed
    /\ Len(contracts) = 3
    /\ Len(fingerprints) = 2
    /\ fingerprints[1].address = contracts[1].address
    /\ fingerprints[2].address = contracts[3].address
    /\ record_errors = <<"No opcodes parsed for " \o contracts[2].address>>

(***************************************************************************)
(* opcodes.py: get_opcode and is_push_opcode on every byte                 *)
(***************************************************************************)

Bytes == 0..255

TableInit ==
    /\ table_byte \in Bytes
    /\ table_entry = Unset
    /\ table_push = FALSE
    /\ table_pc = "start"
    /\ ParseIdle
    /\ PairIdle
    /\ BatchIdle
    /\ FingerprintIdle
    /\ ScoreIdle
    /\ RunIdle
    /\ ConvertIdle
    /\ DetectIdle

\* if byte in OPCODES: return mnemonic, push_bytes
LookupKnown ==
    /\ table_pc = "start"
    /\ table_byte \in DOMAIN OPCODES
    /\ table_entry' = get_opcode(table_byte)
    /\ table_pc' = "looked_up"
    /\ UNCHANGED <<table_byte, table_push>>
    /\ UNCHANGED <<parseVars, pairVars, batchVars, fpVars, scoreVars, runVars,
                   convVars, detectVars>>

\* return f"UNKNOWN_{byte:02X}", 0
LookupUnknown ==
    /\ table_pc = "start"
    /\ table_byte \notin DOMAIN OPCODES
    /\ table_entry' = get_opcode(table_byte)
    /\ table_pc' = "looked_up"
    /\ UNCHANGED <<table_byte, table_push>>
    /\ UNCHANGED <<parseVars, pairVars, batchVars, fpVars, scoreVars, runVars,
                   convVars, detectVars>>

\* is_push_opcode(mnemonic) on the mnemonic returned.
ClassifyPush ==
    /\ table_pc = "looked_up"
    /\ table_push' = is_push_opcode(table_entry[1])
    /\ table_pc' = "classified"
    /\ UNCHANGED <<table_byte, table_entry>>
    /\ UNCHANGED <<parseVars, pairVars, batchVars, fpVars, scoreVars, runVars,
                   convVars, detectVars>>

TableNext ==
    \/ LookupKnown
    \/ LookupUnknown
    \/ ClassifyPush

TableSpec == TableInit /\ [][TableNext]_vars

\* C26: for every byte value, get_opcode returns a non-zero operand length
\* exactly when is_push_opcode holds of the mnemonic returned; byte 0x60 + i
\* (0 <= i < 32) decodes to PUSH(i+1) with operand length i + 1; and no
\* other byte value decodes to the same raw mnemonic.
C26_TableAgrees ==
    table_pc = "classified" =>
        /\ (table_entry[2] # 0) <=> table_push
        /\ table_byte \in 96..127 =>
              table_entry = <<"PUSH" \o ToString(table_byte - 95), table_byte - 95>>
        /\ table_push => table_byte \in 96..127
        /\ \A other \in Bytes \ {table_byte} : get_opcode(other)[1] # table_entry[1]

\* PUSH32 has been looked up and classified.
C26_Witness ==
    /\ table_pc = "classified"
    /\ table_byte = 127
    /\ table_entry = <<"PUSH32", 32>>
    /\ table_push

(***************************************************************************)
(* Further properties of generate_fingerprint                              *)
(***************************************************************************)

\* A ratio lies in [0, 1].
C27_InUnitInterval(x) == x.den > 0 /\ 0 <= x.num /\ x.num <= x.den

\* C27: every fingerprint satisfies the counter bounds: unique_opcodes <=
\* opcode_count; the jump, jump-target, storage and call counters together
\* do not exceed opcode_count; branch_density and unique_ratio lie in [0, 1],
\* unique_ratio above 0 for a non-empty stream; has_delegatecall implies
\* call_count >= 1.
C27_CounterBounds ==
    FingerprintReturned =>
        /\ fingerprint.opcode_count = Len(stream)
        /\ fingerprint.unique_opcodes <= fingerprint.opcode_count
        /\ fingerprint.jump_count + fingerprint.jumpdest_count
              + fingerprint.sload_count + fingerprint.sstore_count
              + fingerprint.call_count <= fingerprint.opcode_count
        /\ C27_InUnitInterval(fingerprint.branch_density)
        /\ C27_InUnitInterval(fingerprint.unique_ratio)
        /\ stream # <<>> => fingerprint.unique_ratio.num > 0
        /\ fingerprint.has_delegatecall => fingerprint.call_count >= 1

\* A returned fingerprint in which every instruction is counted by one of
\* the five counters, and a delegated call is among them.
C27_Witness ==
    /\ FingerprintReturned
    /\ fingerprint.has_delegatecall
    /\ fingerprint.opcode_count >= 5
    /\ fingerprint.jump_count + fingerprint.jumpdest_count
          + fingerprint.sload_count + fingerprint.sstore_count
          + fingerprint.call_count = fingerprint.opcode_count - 1

\* The instructions detect_loops has scanned so far.
C28_Scanned ==
    IF fp_pc = "scan" THEN SubSeq(stream, 1, scan_index - 1)
    ELSE IF fp_pc \in {"returned", "written"} THEN stream
    ELSE <<>>

C28_Seen(name) == Len(SelectSeq(C28_Scanned, LAMBDA op : op = name))

\* C28: after every prefix of the scan the running loop count is at most
\* the number of JUMPDEST seen and at most the number of JUMPI seen; so
\* estimated_loops <= min(jumpdest_count, number of JUMPI) for every
\* fingerprint, and a stream without JUMPDEST has estimated_loops = 0.
C28_LoopCountBounded ==
    /\ fp_pc = "scan" =>
          /\ loop_count <= C28_Seen("JUMPDEST")
          /\ loop_count <= C28_Seen("JUMPI")
    /\ FingerprintReturned =>
          /\ fingerprint.estimated_loops <= fingerprint.jumpdest_count
          /\ fingerprint.estimated_loops <= C28_Seen("JUMPI")
          /\ C28_Seen("JUMPDEST") = 0 => fingerprint.estimated_loops = 0

\* A scan in progress that has counted as many loops as it has seen
\* JUMPDESTs, with a JUMPI still to come.
C28_Witness ==
    /\ fp_pc = "scan"
    /\ scan_index <= Len(stream)
    /\ stream[scan_index] = "JUMPI"
    /\ loop_count = 1
    /\ C28_Seen("JUMPDEST") = 1
    /\ C28_Seen("JUMPI") = 2

(***************************************************************************)
(* Further properties of convert_file                                      *)
(***************************************************************************)

\* The second run, merging with what the first run wrote, has written.
SecondWritten == conv_pc = "written" /\ run_number = 2

\* The valid input contracts that are not added.
C29_SkippedPositions ==
    {i \in 1..Len(input_data.items) :
        /\ C23_Converted(i) # PyNone
        /\ \A k \in 1..Len(C23_NewPositions) : C23_NewPositions[k] # i}

\* C29: a second run on the same input, merging with the output of the
\* first run, does not raise, adds no contract and writes a list equal to the
\* first run's output; and in every merge run total = added + invalid +
\* (valid input contracts skipped as already existing).
C29_MergeIdempotent ==
    /\ run_number = 2 => conv_pc # "raised"
    /\ SecondWritten =>
          /\ stats.added = 0
          /\ output_file = first_output
    /\ MergeWritten =>
          /\ skipped_count = Cardinality(C29_SkippedPositions)
          /\ stats.total = stats.added + stats.invalid + skipped_count

\* A second run that skipped two valid contracts, one of them under an
\* address the first run wrote in upper case.
C29_Witness ==
    /\ SecondWritten
    /\ skipped_count >= 2
    /\ stats.invalid >= 1
    /\ \E k \in 1..Len(first_output.items) :
          DictGet(first_output.items[k], "address", PyNone) = AddrUpper
    /\ \E k \in 1..Len(first_output.items) :
          DictGet(first_output.items[k], "address", PyNone) = AddrOther

(***************************************************************************)
(* token_detector.py: TokenDetector.analyze_contract                       *)
(***************************************************************************)

\* Most references held by the detector.
MaxReferences == 3

\* Scores lie in [0, 1]; the model takes them in eighths, which are exact as
\* floats, as are their products with 100.
ScoreEighths == {0, 3, 4, 5, 8}

\* THRESHOLD_WEAK: some positive score.
WeakThresholds == ScoreEighths \ {0}

\* int(score * 100) for a score given in eighths.
IntTimes100(eighths) == (100 * eighths) \div 8

ReferenceAddresses == <<"0xref1", "0xref2", "0xref3", "0xref4">>

DetAddress == PyStr(<<"0", "x", "a", "1">>)

\* The contracts analysed: one that can be fingerprinted (under either
\* bytecode key), and ones without address, without bytecode, with bytecode
\* that has no opcodes, and with bytecode that is not a str.
DetContracts ==
    {[address |-> DetAddress, runtime_bytecode |-> PyStr(<<"0", "x", "6", "0", "0", "1">>)],
     [address |-> DetAddress, bytecode |-> PyStr(<<"0", "x", "6", "0", "0", "1">>)],
     [runtime_bytecode |-> PyStr(<<"0", "x", "6", "0", "0", "1">>)],
     [address |-> DetAddress, runtime_bytecode |-> PyStr(<<"0", "x">>)],
     [address |-> DetAddress, runtime_bytecode |-> PyStr(<<"z", "z">>)],
     [address |-> DetAddress, runtime_bytecode |-> PyInt(7)]}

DetectInit ==
    /\ threshold_weak \in WeakThresholds
    /\ det_contract \in DetContracts
    /\ \E n \in 0..MaxReferences :
          /\ reference_fingerprints = SubSeq(ReferenceAddresses, 1, n)
          /\ det_scores \in [1..n -> ScoreEighths]
    /\ det_pc = "start"
    /\ det_i = 0
    /\ best_match = None
    /\ best_score = 0
    /\ det_similarities = {}
    /\ det_result = Unset
    /\ ParseIdle
    /\ PairIdle
    /\ BatchIdle
    /\ FingerprintIdle
    /\ ScoreIdle
    /\ RunIdle
    /\ ConvertIdle
    /\ TableIdle

\* bytecode = contract.get('runtime_bytecode') or contract.get('bytecode')
det_bytecode == FirstTruthy(det_contract, <<"runtime_bytecode", "bytecode">>)

\* analyze_contract can fingerprint the contract: address, bytecode, opcodes.
DetFingerprintable ==
    /\ Truthy(DictGet(det_contract, "address", PyNone))
    /\ ~IsEmptyBytecode(det_bytecode)
    /\ ~OpcodesRaise(det_bytecode)
    /\ get_opcode_sequence(det_bytecode.value) # <<>>

\* The three early "return None", and the except branch for what
\* get_opcode_sequence raises.
AnalyzeReject ==
    /\ det_pc = "start"
    /\ ~DetFingerprintable
    /\ det_result' = PyNone
    /\ det_pc' = "returned"
    /\ UNCHANGED <<threshold_weak, det_contract, reference_fingerprints, det_scores,
                   det_i, best_match, best_score, det_similarities>>
    /\ UNCHANGED <<parseVars, pairVars, batchVars, fpVars, scoreVars, runVars,
                   convVars, tableVars>>

\* contract_fp = generate_fingerprint(...); best_match = None; best_score = 0.0
AnalyzeStart ==
    /\ det_pc = "start"
    /\ DetFingerprintable
    /\ best_match' = None
    /\ best_score' = 0
    /\ det_similarities' = {}
    /\ det_i' = 1
    /\ det_pc' = "compare"
    /\ UNCHANGED <<threshold_weak, det_contract, reference_fingerprints, det_scores,
                   det_result>>
    /\ UNCHANGED <<parseVars, pairVars, batchVars, fpVars, scoreVars, runVars,
                   convVars, tableVars>>

\* Mutant: a later reference with the same score replaces the best match.
Improves_tie(score, best) == score >= best

\* if score > best_score
Improves(score, best) == score > best

\* One iteration of "for ref_address, ref_fp in ...items()".
CompareReference ==
    /\ det_pc = "compare"
    /\ det_i <= Len(reference_fingerprints)
    /\ det_similarities' =
          det_similarities \cup {<<reference_fingerprints[det_i], det_scores[det_i]>>}
    /\ best_score' = IF Improves(det_scores[det_i], best_score)
                     THEN det_scores[det_i] ELSE best_score
    /\ best_match' = IF Improves(det_scores[det_i], best_score)
                     THEN Some(reference_fingerprints[det_i]) ELSE best_match
    /\ det_i' = det_i + 1
    /\ UNCHANGED <<threshold_weak, det_contract, reference_fingerprints, det_scores,
                   det_pc, det_result>>
    /\ UNCHANGED <<parseVars, pairVars, batchVars, fpVars, scoreVars, runVars,
                   convVars, tableVars>>

\* if best_score < THRESHOLD_WEAK: return None
AnalyzeBelow ==
    /\ det_pc = "compare"
    /\ det_i > Len(reference_fingerprints)
    /\ best_score < threshold_weak
    /\ det_result' = PyNone
    /\ det_pc' = "returned"
    /\ UNCHANGED <<threshold_weak, det_contract, reference_fingerprints, det_scores,
                   det_i, best_match, best_score, det_similarities>>
    /\ UNCHANGED <<parseVars, pairVars, batchVars, fpVars, scoreVars, runVars,
                   convVars, tableVars>>

\* return result: the fields computed from the comparison (the metadata
\* copied from the contract is left out).
AnalyzeReturn ==
    /\ det_pc = "compare"
    /\ det_i > Len(reference_fingerprints)
    /\ ~(best_score < threshold_weak)
    /\ det_result' = [address |-> det_contract.address,
                      confidence_score |-> IntTimes100(best_score),
                      best_match |-> best_match,
                      best_similarity |-> best_score,
                      similarities |-> det_similarities]
    /\ det_pc' = "returned"
    /\ UNCHANGED <<threshold_weak, det_contract, reference_fingerprints, det_scores,
                   det_i, best_match, best_score, det_similarities>>
    /\ UNCHANGED <<parseVars, pairVars, batchVars, fpVars, scoreVars, runVars,
                   convVars, tableVars>>

DetectNext ==
    \/ AnalyzeReject
    \/ AnalyzeStart
    \/ CompareReference
    \/ AnalyzeBelow
    \/ AnalyzeReturn

DetectSpec == DetectInit /\ [][DetectNext]_vars

\* The references and the greatest score among them.
C30_References == 1..Len(reference_fingerprints)

C30_Maximum ==
    CHOOSE m \in {det_scores[k] : k \in C30_References} :
        \A k \in C30_References : det_scores[k] <= m

\* The first reference, in iteration order, whose score is the maximum.
C30_FirstBest ==
    reference_fingerprints[
        CHOOSE k \in C30_References :
            /\ det_scores[k] = C30_Maximum
            /\ \A j \in 1..(k - 1) : det_scores[j] # C30_Maximum]

\* C30: analyze_contract returns a result only when the maximum score over
\* the references is >= THRESHOLD_WEAK; then best_similarity is that
\* maximum, best_match the first reference attaining it and confidence_score
\* is int(best_similarity * 100), an integer in [0, 100]; otherwise it
\* returns None.
C30_BestMatch ==
    det_pc = "returned" =>
        IF C30_References # {} /\ C30_Maximum >= threshold_weak
        THEN IF DetFingerprintable
             THEN /\ det_result # PyNone
                  /\ det_result.best_similarity = C30_Maximum
                  /\ det_result.best_match = Some(C30_FirstBest)
                  /\ det_result.confidence_score = (100 * C30_Maximum) \div 8
                  /\ det_result.confidence_score \in 0..100
             ELSE det_result = PyNone
        ELSE det_result = PyNone

\* A result whose best score is attained by the second and the third
\* reference, and is the threshold itself.
C30_Witness ==
    /\ det_pc = "returned"
    /\ det_result # PyNone
    /\ det_scores = <<3, 5, 5>>
    /\ threshold_weak = 5
    /\ det_result.best_match = Some("0xref2")
    /\ det_result.confidence_score = 62

=============================================================================
